---- MODULE Spec2Model ----
(***************************************************************************)
(* Meeting-minutes front end: paginated transcript loading, checkpoint     *)
(* recovery and summary-generation polling, modelled as state machines.    *)
(*                                                                         *)
(*   SpecPaginate    usePaginatedTranscripts                               *)
(*   SpecScan        useTranscriptRecovery: scans of any checkpoint store  *)
(*   SpecRecovery    useTranscriptRecovery: scan, recover, delete          *)
(*   Spec            useSummaryGeneration + SidebarProvider polling        *)
(*   SpecSequential  the same, one summary job at a time                   *)
(*   SpecImport      useImportAudio                                        *)
(*   SpecLoadAll     usePaginatedTranscripts over a fixed store            *)
(*   SpecGenerate    handleGenerateSummary up to the start of the poll     *)
(*   SpecFormat      recoverMeeting: the segments handed to saveMeeting    *)
(*   SpecModels      ModelManager: download, cancel and delete of models   *)
(*   SpecDevices     DeviceSelection inside RecordingSettings              *)
(*   SpecOverlapping the same, with polls slower than the interval         *)
(*   SpecTwoMeetings the summary polls of two meetings in one provider     *)
(*   SpecSequentialFair, SpecTwoMeetingsFair  the same with the interval   *)
(*                   firing and every call answering                      *)
(*   SpecAutoGenerate  MeetingDetailsContent: automatic generation         *)
(*   SpecSwitch      usePaginatedTranscripts while the meeting id changes  *)
(*   SpecDownloads   ModelManager with events of started downloads only    *)
(*   SpecModelStore  the same, with localStorage and restarts              *)
(*                                                                         *)
(* Each specification moves its own variables and leaves the others at     *)
(* their initial values.                                                   *)
(***************************************************************************)
EXTENDS Integers, Sequences, FiniteSets, TLC

VARIABLES
    \* ---- usePaginatedTranscripts ----
    transcripts,       \* useState<Transcript[]>
    hasMore,           \* useState(false)
    totalCount,        \* useState(0)
    isLoading,         \* useState(true)
    isLoadingMore,     \* useState(false)
    pgError,           \* useState<string | null>(null): TRUE when an error message is set
    offsetRef,         \* useRef(0)
    isLoadingRef,      \* useRef(false)
    lastLoadTimeRef,   \* useRef(0)
    pgRequest,         \* the api_get_meeting_transcripts call in flight
    pgNow,             \* Date.now() as seen by the pagination hook (ms)
    \* ---- useTranscriptRecovery ----
    rcNow,               \* Date.now() as seen by the recovery hook (ms)
    idbMeetings,         \* IndexedDB: the checkpoint (MeetingMetadata) of each meeting id
    ssSavedId,           \* sessionStorage just_saved_meeting_id (NoId = not set)
    ssSavedTs,           \* sessionStorage just_saved_meeting_timestamp (NoTimestamp = not set)
    ssStoppedKey,        \* sessionStorage just_stopped_meeting_key is set
    ssStoppedTs,         \* sessionStorage just_stopped_meeting_timestamp
    recoverableMeetings, \* useState<MeetingMetadata[]>([])
    markedSaved,         \* meeting ids indexedDBService.markMeetingSaved has marked
    rcLast,              \* what the last call of the hook did (observation only)
    \* ---- SidebarProvider (summary polling) ----
    timers,              \* every setInterval timer startSummaryPolling has created
    activeSummaryPolls,  \* useState<Map<string, NodeJS.Timeout>>: the latest state
    renderedPolls,       \* activeSummaryPolls as of the last render (what closures see)
    pollsChanged,        \* setActiveSummaryPolls was called since the last render
    \* ---- useSummaryGeneration / useMeetingData ----
    summaryStatus,       \* useState<SummaryStatus>('idle')
    summaryError,        \* useState<string | null>(null)
    originalTranscript,  \* useState<string>(''): the stored text (NoText = '')
    aiSummary,           \* useState<Summary | null>: the displayed summary
    pendingRuns,         \* processSummary calls awaiting api_process_transcript
    runCount,            \* number of processSummary calls so far
    \* ---- summarisation back end ----
    backend,             \* per meeting: job status, stored summary, backup, job result
    smLast,              \* what the last step delivered to the hook (observation only)
    \* ---- useImportAudio ----
    importStatus,        \* useState<ImportStatus>('idle')
    fileInfo,            \* useState<AudioFileInfo | null>(null): TRUE when set
    importProgress,      \* useState<ImportProgress | null>(null)
    importError,         \* useState<string | null>(null): TRUE when set
    importCall,          \* the command the hook is awaiting
    eventsLeft,          \* events the started import may still emit
    importCancelled,     \* cancelImport succeeded and startImport was not called since
    navigated,           \* onComplete ran: navigation to the created meeting is scheduled
    imLast,              \* what the last step of the import hook was (observation only)
    \* ---- transcript database behind api_get_meeting_transcripts ----
    dbTranscripts,       \* the segments stored for the meeting, in the backend's order
    \* ---- handleGenerateSummary (useSummaryGeneration) ----
    modelConfig,         \* the summarisation provider and whether a model is selected
    genCall,             \* where the running handleGenerateSummary call is
    genCount,            \* number of handleGenerateSummary calls so far
    genLast,             \* how the last step of the call ended (observation only)
    \* ---- recoverMeeting: transcripts of the recovered meeting ----
    idbTranscripts,      \* IndexedDB: the StoredTranscripts of the meeting, in key order
    formattedTranscripts, \* what recoverMeeting passed to saveMeeting (<<>> before the call)
    \* ---- ModelManager (WhisperModelManager.tsx) ----
    models,              \* useState<ModelInfo[]>: the status of each model of the list
    downloadingModels,   \* useState<Set<string>>
    progressThrottleRef, \* useRef<Map<string, {progress, timestamp}>>
    mmPending,           \* the WhisperAPI calls the handlers are awaiting
    mmNow,               \* Date.now() as seen by the progress listener (ms)
    mmLast,              \* what the last step of the component was (observation only)
    persistedDownloading,\* localStorage 'downloading-models', as a set of names
    mmStarted,           \* the models the backend has started to download since it runs
    retryToasts,         \* the models whose error toast with its retry action is shown
    mmRestarts,          \* number of restarts of the application so far
    \* ---- RecordingSettings / DeviceSelection ----
    preferences,         \* RecordingSettings useState: preferred_mic_device, preferred_system_device
    selectedDevices,     \* the selectedDevices prop of DeviceSelection as last rendered
    saving,              \* RecordingSettings useState(false): set_recording_preferences is awaited
    devices,             \* useState<AudioDevice[]>: the names of the input devices fetched
    isMonitoring,        \* useState(false)
    audioLevels,         \* useState<Map<string, AudioLevelData>>: the device names it holds
    showLevels,          \* useState(false)
    dsError,             \* useState<string | null>(null): TRUE when a message is set
    dsMounted,           \* the component is mounted
    dsCalls,             \* the start / stop_audio_level_monitoring invokes awaited
    dsToggles,           \* number of toggleAudioLevelMonitoring calls so far
    dsLast,               \* what the last step of the component was (observation only)
    \* ---- MeetingDetailsContent ----
    pageMounted,         \* the details page of ViewedMeeting is mounted with that meeting id
    mdEnv,               \* what the page was opened with and what the stores hold
    meetingDetails,      \* useState<any>(null): "null", or the transcripts it carries
    meetingSummary,      \* useState<Summary | null>(null): TRUE when a summary is set
    mdIsLoading,         \* useState(true): isLoading of the page
    isLoadingTranscripts,\* isLoading of usePaginatedTranscripts as the page reads it
    hasCheckedAutoGen,   \* useState(false)
    shouldAutoGenerate,  \* useState(false)
    setupCalls,          \* the setupAutoGeneration calls awaiting an invoke
    autoRunning,         \* the handleGenerateSummary('') of the auto-generate effect is awaited
    autoCount,           \* number of automatic generations started so far
    mdLast,              \* what the last step of the page was (observation only)
    \* ---- usePaginatedTranscripts across meeting ids ----
    pgMeetingId,         \* the meetingId prop of the last render
    loadedMeetingIdRef,  \* useRef<string | null>(null)
    pgInflight,          \* the invokes of the hook that are awaited, with their meeting id
    pgSwitches,          \* number of meetingId changes so far
    pgSource,            \* the meeting whose answer wrote hasMore and totalCount last
    pgFailedAt,          \* offset of the loadMore request that failed last, -1 if none
    pgLast               \* what the last step of the hook was (observation only)

pgVars == <<transcripts, hasMore, totalCount, isLoading, isLoadingMore,
            pgError, offsetRef, isLoadingRef, lastLoadTimeRef, pgRequest, pgNow>>

rcVars == <<rcNow, idbMeetings, ssSavedId, ssSavedTs, ssStoppedKey, ssStoppedTs,
            recoverableMeetings, markedSaved, rcLast>>

providerVars == <<timers, activeSummaryPolls, renderedPolls, pollsChanged>>

hookVars == <<summaryStatus, summaryError, originalTranscript, aiSummary,
              pendingRuns, runCount>>

smVars == <<providerVars, hookVars, backend, smLast>>

imVars == <<importStatus, fileInfo, importProgress, importError, importCall,
            eventsLeft, importCancelled, navigated, imLast>>

dbVars == <<dbTranscripts>>

genVars == <<modelConfig, genCall, genCount, genLast>>

fmVars == <<idbTranscripts, formattedTranscripts>>

mmStore == <<persistedDownloading, mmStarted, retryToasts, mmRestarts>>

mmVars == <<models, downloadingModels, progressThrottleRef, mmPending, mmNow, mmLast,
            mmStore>>

dsVars == <<preferences, selectedDevices, saving, devices, isMonitoring, audioLevels,
            showLevels, dsError, dsMounted, dsCalls, dsToggles, dsLast>>

agVars == <<mdEnv, meetingDetails, meetingSummary, mdIsLoading, isLoadingTranscripts,
            hasCheckedAutoGen, shouldAutoGenerate, setupCalls, autoRunning, autoCount,
            mdLast>>

mdVars == <<pageMounted, agVars>>

swVars == <<pgMeetingId, loadedMeetingIdRef, pgInflight, pgSwitches, pgSource,
            pgFailedAt, pgLast>>

vars == <<pgVars, rcVars, smVars, imVars, dbVars, genVars, fmVars, mmVars, dsVars, mdVars,
          swVars>>

notPg == <<rcVars, smVars, imVars, dbVars, genVars, fmVars, mmVars, dsVars, mdVars, swVars>>
notRc == <<pgVars, smVars, imVars, dbVars, genVars, fmVars, mmVars, dsVars, mdVars, swVars>>
notSm == <<pgVars, rcVars, imVars, dbVars, genVars, fmVars, mmVars, dsVars, mdVars, swVars>>
notIm == <<pgVars, rcVars, smVars, dbVars, genVars, fmVars, mmVars, dsVars, mdVars, swVars>>
notGen == <<pgVars, rcVars, imVars, fmVars, mmVars, dsVars, mdVars, swVars>>
notFm == <<pgVars, rcVars, smVars, imVars, dbVars, genVars, mmVars, dsVars, mdVars, swVars>>
notMm == <<pgVars, rcVars, smVars, imVars, dbVars, genVars, fmVars, dsVars, mdVars, swVars>>
notDs == <<pgVars, rcVars, smVars, imVars, dbVars, genVars, fmVars, mmVars, mdVars, swVars>>

(***************************************************************************)
(* Bounds of the model.                                                    *)
(***************************************************************************)
NumSegs == 3         \* segment ids 1..NumSegs exist for the meeting
MaxPageLen == 2      \* longest page a response carries in the model
MaxOffset == 3       \* loadMore is not modelled beyond this offset
MaxPgClock == 2      \* number of clock advances of the pagination clock
NumCheckpoints == 2  \* meeting ids 1..NumCheckpoints may hold a checkpoint
MaxRcClock == 1      \* number of clock advances of the recovery clock
MaxRuns == 2         \* number of processSummary calls per run of the model
MAX_POLLS == 3       \* ticks until the client-side timeout (200 in the source)
MaxStored == 2       \* segments the meeting of SpecGenerate holds at most
MaxTranscripts == 3  \* StoredTranscripts of the recovered meeting at most
MaxSequenceId == 2   \* positive sequence ids 1..MaxSequenceId
MaxEvents == 2       \* events one started import emits at most
MaxPercent == 2      \* progress payloads 1..MaxPercent
DEFAULT_PAGE_SIZE == 2   \* limit of one page request (100 in the source)
MaxInflight == 2     \* api_get_summary calls of one timer that can be unanswered at once
MaxOtherRuns == 1    \* number of polls started for the other meeting
MaxToggles == 3      \* number of toggleAudioLevelMonitoring calls per run of the model
MaxMmClock == 2      \* number of clock advances of the model manager's clock

(***************************************************************************)
(* usePaginatedTranscripts                                                 *)
(***************************************************************************)
Undefined == -1      \* encodes a missing audio_start_time

SegIds == 1..NumSegs

\* The audio_start_time stored for segment i: segment 2 has none, the others
\* alternate between two instants, so that ties and a missing value occur.
AudioStartOf(i) == IF i = 2 THEN Undefined ELSE i % 2

\* The Transcript with id i as the backend returns it.
Seg(i) == [id |-> i, audio_start_time |-> AudioStartOf(i)]

\* (t.audio_start_time ?? 0)
StartOrZero(t) == IF t.audio_start_time = Undefined THEN 0 ELSE t.audio_start_time

RECURSIVE InsertSorted(_, _)
\* One step of the stable sort: t goes after every element that does not
\* compare greater than it.
InsertSorted(s, t) ==
    IF s = <<>> THEN <<t>>
    ELSE IF StartOrZero(Head(s)) - StartOrZero(t) <= 0
         THEN <<Head(s)>> \o InsertSorted(Tail(s), t)
         ELSE <<t>> \o s

RECURSIVE SortByStart(_)
\* Array.prototype.sort with comparator (a, b) => start(a) - start(b); stable.
SortByStart(s) ==
    IF s = <<>> THEN <<>>
    ELSE InsertSorted(SortByStart(SubSeq(s, 1, Len(s) - 1)), s[Len(s)])

\* newTranscripts.filter(t => !existingIds.has(t.id))
UniqueNew(prev, newTranscripts) ==
    LET existingIds == {prev[i].id : i \in 1..Len(prev)}
    IN  SelectSeq(newTranscripts, LAMBDA t : t.id \notin existingIds)

\* An append branch that neither filters nor sorts.
MergePageAppendOnly(prev, newTranscripts) == prev \o newTranscripts

\* The functional update of setTranscripts in the append branch.
MergePage(prev, newTranscripts) ==
    SortByStart(prev \o UniqueNew(prev, newTranscripts))

\* Pages the backend may answer with: up to MaxPageLen stored segments, no
\* segment twice in one page, in any order.
Pages ==
    UNION {
        {p \in [1..n -> SegIds] : \A i, j \in 1..n : i # j => p[i] # p[j]}
        : n \in 0..MaxPageLen }

PageOf(p) == [i \in 1..Len(p) |-> Seg(p[i])]

NoRequest == [kind |-> "none", offset |-> 0]

DEBOUNCE_MS == 100
ClockStep == DEBOUNCE_MS

PgInit ==
    /\ transcripts = <<>>
    /\ hasMore = FALSE
    /\ totalCount = 0
    /\ isLoading = TRUE
    /\ isLoadingMore = FALSE
    /\ pgError = FALSE
    /\ offsetRef = 0
    /\ isLoadingRef = FALSE
    /\ lastLoadTimeRef = 0
    \* the mount effect has called reset() and loadInitial(): the first page
    \* request (offset 0, append = false) is in flight
    /\ pgRequest = [kind |-> "initial", offset |-> 0]
    /\ pgNow = 1000

\* No segment is stored, or the database is not looked at.
DbIdle == dbTranscripts = <<>>

\* loadTranscriptsAtOffset(0, false) resolves inside loadInitial with the
\* response {transcripts: newTranscripts, has_more: more, total_count: total}.
InitialLoadAnswer(newTranscripts, more, total) ==
    /\ pgRequest.kind = "initial"
    /\ transcripts' = newTranscripts
    /\ hasMore' = more
    /\ totalCount' = total
    /\ offsetRef' = pgRequest.offset + Len(newTranscripts)
    /\ isLoading' = FALSE
    /\ pgRequest' = NoRequest
    /\ UNCHANGED <<isLoadingMore, pgError, isLoadingRef, lastLoadTimeRef, pgNow>>
    /\ UNCHANGED notPg

\* The initial response carries the segments with the ids p.
InitialLoadResponse(p, more, total) == InitialLoadAnswer(PageOf(p), more, total)

\* The invoke rejects inside loadInitial: the catch sets error, finally clears isLoading.
InitialLoadFail ==
    /\ pgRequest.kind = "initial"
    /\ pgError' = TRUE
    /\ isLoading' = FALSE
    /\ pgRequest' = NoRequest
    /\ UNCHANGED <<transcripts, hasMore, totalCount, isLoadingMore, offsetRef,
                   isLoadingRef, lastLoadTimeRef, pgNow>>
    /\ UNCHANGED notPg

\* loadMore() up to its await: the debounce and the guards, then the request.
LoadMoreCall ==
    /\ ~(pgNow - lastLoadTimeRef < DEBOUNCE_MS)
    /\ ~(isLoadingRef \/ ~hasMore \/ isLoading)
    /\ lastLoadTimeRef' = pgNow
    /\ isLoadingRef' = TRUE
    /\ isLoadingMore' = TRUE
    /\ pgRequest' = [kind |-> "more", offset |-> offsetRef]
    /\ UNCHANGED <<transcripts, hasMore, totalCount, isLoading, pgError,
                   offsetRef, pgNow>>
    /\ UNCHANGED notPg

\* loadMore() against a backend that answers with any page: the model stops
\* asking beyond MaxOffset.
LoadMore ==
    /\ offsetRef <= MaxOffset
    /\ LoadMoreCall

\* loadTranscriptsAtOffset(offset, true) resolves; loadMore's finally runs.
LoadMoreAnswer(newTranscripts, more, total) ==
    /\ pgRequest.kind = "more"
    /\ transcripts' = MergePage(transcripts, newTranscripts)
    /\ hasMore' = more
    /\ totalCount' = total
    /\ offsetRef' = pgRequest.offset + Len(newTranscripts)
    /\ isLoadingMore' = FALSE
    /\ isLoadingRef' = FALSE
    /\ pgRequest' = NoRequest
    /\ UNCHANGED <<isLoading, pgError, lastLoadTimeRef, pgNow>>
    /\ UNCHANGED notPg

\* The loadMore response carries the segments with the ids p.
LoadMoreResponse(p, more, total) == LoadMoreAnswer(PageOf(p), more, total)

\* The invoke rejects inside loadMore.
LoadMoreFail ==
    /\ pgRequest.kind = "more"
    /\ pgError' = TRUE
    /\ isLoadingMore' = FALSE
    /\ isLoadingRef' = FALSE
    /\ pgRequest' = NoRequest
    /\ UNCHANGED <<transcripts, hasMore, totalCount, isLoading, offsetRef,
                   lastLoadTimeRef, pgNow>>
    /\ UNCHANGED notPg

\* Time passes between two events of the hook.
PgClock ==
    /\ pgNow < 1000 + MaxPgClock * ClockStep
    /\ pgNow' = pgNow + ClockStep
    /\ UNCHANGED <<transcripts, hasMore, totalCount, isLoading, isLoadingMore,
                   pgError, offsetRef, isLoadingRef, lastLoadTimeRef, pgRequest>>
    /\ UNCHANGED notPg

PgNext ==
    \/ \E p \in Pages, more \in BOOLEAN, total \in {0, NumSegs} :
          InitialLoadResponse(p, more, total)
    \/ InitialLoadFail
    \/ LoadMore
    \/ \E p \in Pages, more \in BOOLEAN, total \in {0, NumSegs} :
          LoadMoreResponse(p, more, total)
    \/ LoadMoreFail
    \/ PgClock

\* The pagination hook of a page that shows no meeting: nothing moves.
PgIdle ==
    /\ transcripts = <<>>
    /\ hasMore = FALSE
    /\ totalCount = 0
    /\ isLoading = TRUE
    /\ isLoadingMore = FALSE
    /\ pgError = FALSE
    /\ offsetRef = 0
    /\ isLoadingRef = FALSE
    /\ lastLoadTimeRef = 0
    /\ pgRequest = NoRequest
    /\ pgNow = 1000

NoMeeting == ""     \* meetingId is '' : the page shows no meeting

NoPgObs == [op |-> "none", accepted |-> FALSE, kind |-> "none"]

\* The hook shows ViewedMeeting, whose id does not change.
SwIdle ==
    /\ pgMeetingId = "m1"
    /\ loadedMeetingIdRef = "m1"
    /\ pgInflight = <<>>
    /\ pgSwitches = 0
    /\ pgSource = NoMeeting
    /\ pgFailedAt = -1
    /\ pgLast = NoPgObs

\* The list is in non-decreasing (audio_start_time ?? 0) order.
IsSortedByStart(s) ==
    \A i \in 1..(Len(s) - 1) : StartOrZero(s[i]) <= StartOrZero(s[i + 1])

\* No two entries share an id.
NoDuplicateIds(s) ==
    \A i, j \in 1..Len(s) : i # j => s[i].id # s[j].id

\* C1: once the initial load has finished, and after every loadMore, the
\* transcripts list is sorted by audio_start_time (missing = 0) and holds no
\* id twice.
C1_SortedNoDuplicates ==
    (~isLoading /\ pgRequest.kind = "none") =>
        (IsSortedByStart(transcripts) /\ NoDuplicateIds(transcripts))

(***************************************************************************)
(* useTranscriptRecovery                                                   *)
(***************************************************************************)
CkIds == 1..NumCheckpoints

NoId == 0           \* sessionStorage.getItem returned null for the id
NoTimestamp == -1   \* sessionStorage.getItem returned null for the timestamp

SAVED_FLAG_MS == 5 * 60 * 1000             \* stale just-saved flag
STOP_WINDOW_MS == 2 * 60 * 1000            \* just-stopped protection
RETENTION_MS == 7 * 24 * 60 * 60 * 1000    \* cutoffTime
MIN_AGE_MS == 15 * 1000                    \* secondsAgo

RcEpoch == 1000 * 1000 * 1000
RcClockStep == 60 * 1000

NoCheckpoint == [present |-> FALSE, lastUpdated |-> 0, folderPath |-> FALSE]

\* Ages (ms) a checkpoint may have when the hook mounts.
CheckpointAges ==
    {10 * 1000, MIN_AGE_MS, 60 * 1000, 3 * 60 * 1000, RETENTION_MS}

\* Ages (ms) of the sessionStorage flags when the hook mounts.
SavedFlagAges == {SAVED_FLAG_MS - RcClockStep, SAVED_FLAG_MS}
StoppedFlagAges == {STOP_WINDOW_MS - RcClockStep, STOP_WINDOW_MS}

Checkpoints ==
    {NoCheckpoint} \cup
    [present : {TRUE}, lastUpdated : {RcEpoch - a : a \in CheckpointAges},
     folderPath : BOOLEAN]

NoCall == [op |-> "none"]

\* The hook mounts over any checkpoint store and any sessionStorage flags.
ScanInit ==
    /\ rcNow = RcEpoch
    /\ idbMeetings \in [CkIds -> Checkpoints]
    \* meeting ids are interchangeable: the just-saved flag, when set, names meeting 1
    /\ \/ ssSavedId = NoId /\ ssSavedTs = NoTimestamp
       \/ ssSavedId = 1 /\ ssSavedTs \in {RcEpoch - a : a \in SavedFlagAges}
    /\ \/ ssStoppedKey = FALSE /\ ssStoppedTs = NoTimestamp
       \/ ssStoppedKey = TRUE /\ ssStoppedTs \in {RcEpoch - a : a \in StoppedFlagAges}
    /\ recoverableMeetings = <<>>
    /\ markedSaved = {}
    /\ rcLast = NoCall

\* The hook mounts over abandoned checkpoints (three minutes old, with or
\* without an audio folder) and no sessionStorage flags.
RcInit ==
    /\ rcNow = RcEpoch
    /\ idbMeetings \in [CkIds -> [present : {TRUE},
                                  lastUpdated : {RcEpoch - 3 * 60 * 1000},
                                  folderPath : BOOLEAN]]
    /\ ssSavedId = NoId /\ ssSavedTs = NoTimestamp
    /\ ssStoppedKey = FALSE /\ ssStoppedTs = NoTimestamp
    /\ recoverableMeetings = <<>>
    /\ markedSaved = {}
    /\ rcLast = NoCall

\* The recovery hook with an empty checkpoint store: nothing moves.
RcIdle ==
    /\ rcNow = RcEpoch
    /\ idbMeetings = [i \in CkIds |-> NoCheckpoint]
    /\ ssSavedId = NoId /\ ssSavedTs = NoTimestamp
    /\ ssStoppedKey = FALSE /\ ssStoppedTs = NoTimestamp
    /\ recoverableMeetings = <<>>
    /\ markedSaved = {}
    /\ rcLast = NoCall

RECURSIVE IdsFrom(_)
\* The ids i..NumCheckpoints in increasing order.
IdsFrom(i) == IF i > NumCheckpoints THEN <<>> ELSE <<i>> \o IdsFrom(i + 1)

\* indexedDBService.getAllMeetings(): the checkpoints not yet marked saved.
GetAllMeetings ==
    LET ids == SelectSeq(IdsFrom(1),
                         LAMBDA i : idbMeetings[i].present /\ i \notin markedSaved)
    IN  [k \in 1..Len(ids) |->
            [meetingId |-> ids[k], lastUpdated |-> idbMeetings[ids[k]].lastUpdated,
             folderPath |-> idbMeetings[ids[k]].folderPath]]

\* KeepMeeting without the retention test.
KeepMeetingNoRetention(m, now, justSavedMeetingId, justStoppedKey, justStoppedTimestamp) ==
    LET secondsAgo == now - MIN_AGE_MS
        recentStopWindow ==
            IF justStoppedTimestamp # NoTimestamp
            THEN now - justStoppedTimestamp < STOP_WINDOW_MS
            ELSE FALSE
        meetingAge == now - m.lastUpdated
    IN  IF justSavedMeetingId # NoId /\ m.meetingId = justSavedMeetingId THEN FALSE
        ELSE IF recentStopWindow /\ justStoppedKey /\ meetingAge < STOP_WINDOW_MS THEN FALSE
        ELSE m.lastUpdated < secondsAgo

\* The predicate of meetings.filter(...) with the values the call has read.
KeepMeeting(m, now, justSavedMeetingId, justStoppedKey, justStoppedTimestamp) ==
    LET cutoffTime == now - RETENTION_MS
        secondsAgo == now - MIN_AGE_MS
        recentStopWindow ==
            IF justStoppedTimestamp # NoTimestamp
            THEN now - justStoppedTimestamp < STOP_WINDOW_MS
            ELSE FALSE
        meetingAge == now - m.lastUpdated
        isWithinRetention == m.lastUpdated > cutoffTime
        isOldEnough == m.lastUpdated < secondsAgo
    IN  IF justSavedMeetingId # NoId /\ m.meetingId = justSavedMeetingId THEN FALSE
        ELSE IF recentStopWindow /\ justStoppedKey /\ meetingAge < STOP_WINDOW_MS THEN FALSE
        ELSE isWithinRetention /\ isOldEnough

\* An audio step that keeps the folder path when has_audio_checkpoints throws.
WithAudioStatusKeepOnError(m, audio) ==
    IF m.folderPath
    THEN [m EXCEPT !.folderPath = (audio[m.meetingId] # "no")]
    ELSE m

\* The has_audio_checkpoints step: folderPath is kept only on answer "yes".
WithAudioStatus(m, audio) ==
    IF m.folderPath
    THEN [m EXCEPT !.folderPath = (audio[m.meetingId] = "yes")]
    ELSE m

AudioAnswers == {"yes", "no", "throws"}

\* The meetings has_audio_checkpoints is invoked for: those that pass the
\* filter and carry a folder path.
AudioAsked(getAllOk) ==
    IF getAllOk
    THEN {i \in CkIds :
            /\ idbMeetings[i].present /\ i \notin markedSaved
            /\ idbMeetings[i].folderPath
            /\ KeepMeeting([meetingId |-> i, lastUpdated |-> idbMeetings[i].lastUpdated,
                            folderPath |-> TRUE],
                           rcNow, ssSavedId, ssStoppedKey, ssStoppedTs)}
    ELSE {}

\* checkForRecoverableTranscripts(); getAllOk = getAllMeetings resolved,
\* audio = what has_audio_checkpoints does for each meeting folder.
CheckForRecoverableTranscripts(getAllOk, audio) ==
    LET meetings == GetAllMeetings
        savedStale == ssSavedTs # NoTimestamp /\ rcNow - ssSavedTs > SAVED_FLAG_MS
        stoppedStale == ssStoppedTs # NoTimestamp /\ rcNow - ssStoppedTs > STOP_WINDOW_MS
        recentMeetings ==
            SelectSeq(meetings,
                      LAMBDA m : KeepMeeting(m, rcNow, ssSavedId, ssStoppedKey, ssStoppedTs))
    IN  /\ IF getAllOk
           THEN /\ ssSavedId' = IF savedStale THEN NoId ELSE ssSavedId
                /\ ssSavedTs' = IF savedStale THEN NoTimestamp ELSE ssSavedTs
                /\ ssStoppedKey' = IF stoppedStale THEN FALSE ELSE ssStoppedKey
                /\ ssStoppedTs' = IF stoppedStale THEN NoTimestamp ELSE ssStoppedTs
                /\ recoverableMeetings' =
                      [k \in 1..Len(recentMeetings) |->
                          WithAudioStatus(recentMeetings[k], audio)]
           ELSE /\ UNCHANGED <<ssSavedId, ssSavedTs, ssStoppedKey, ssStoppedTs>>
                /\ recoverableMeetings' = <<>>
        /\ rcLast' = [op |-> "check", failed |-> ~getAllOk, audio |-> audio,
                      savedId |-> ssSavedId, savedTs |-> ssSavedTs,
                      stoppedKey |-> ssStoppedKey, stoppedTs |-> ssStoppedTs]
        /\ UNCHANGED <<rcNow, idbMeetings, markedSaved>>
        /\ UNCHANGED notRc

\* RecoverCalls with markMeetingSaved moved ahead of the check of saveMeeting.
RecoverCallsMarkFirst(metadataFound, hasTranscripts, saveOk, markOk) ==
    LET saveCalled == metadataFound /\ hasTranscripts
        markCalled == saveCalled
        completed == markCalled /\ markOk /\ saveOk
    IN  [saveCalled |-> saveCalled, saved |-> saveCalled /\ saveOk,
         markCalled |-> markCalled, marked |-> markCalled /\ markOk,
         completed |-> completed]

\* Which calls recoverMeeting makes before it returns or throws: steps 1, 2,
\* 6 and 7 of the function, each of which ends the call when it fails.
RecoverCalls(metadataFound, hasTranscripts, saveOk, markOk) ==
    LET saveCalled == metadataFound /\ hasTranscripts
        markCalled == saveCalled /\ saveOk
        completed == markCalled /\ markOk
    IN  [saveCalled |-> saveCalled, saved |-> saveCalled /\ saveOk,
         markCalled |-> markCalled, marked |-> completed,
         completed |-> completed]

\* An audio step that leaves audioRecoveryStatus at its initial null when
\* the invoke throws or no folder path is known.
AudioRecoveryStatusNull(folderPath, audio) ==
    IF folderPath
    THEN (IF audio = "throws" THEN "null" ELSE audio)
    ELSE "null"

\* The audioRecoveryStatus.status recoverMeeting ends with.
AudioRecoveryStatus(folderPath, audio) ==
    IF folderPath
    THEN (IF audio = "throws" THEN "failed" ELSE audio)
    ELSE "none"

AudioOutcomes == {"success", "partial", "failed", "none", "throws"}

\* A list update that empties the list.
RemoveFromListClears(prev, meetingId) == <<>>

\* prev.filter(m => m.meetingId !== meetingId)
RemoveFromList(prev, meetingId) == SelectSeq(prev, LAMBDA m : m.meetingId # meetingId)

\* saveResponse.meeting_id: the id the database gives the saved meeting.
SavedMeetingId(id) == NumCheckpoints + id

\* The value of a recoverMeeting call that threw.
NoResult == [success |-> FALSE, meetingId |-> NoId, audioRecoveryStatus |-> "null"]

\* A recoverMeeting in which a failed cleanup_checkpoints is fatal.
ReturnsCleanupFatal(calls, cleanupCalled, cleanupOk) ==
    calls.completed /\ (cleanupCalled => cleanupOk)

\* Whether recoverMeeting reaches its return statement: step 8 catches the
\* failure of cleanup_checkpoints, so steps 1, 2, 6 and 7 decide.
Returns(calls, cleanupCalled, cleanupOk) == calls.completed

\* recoverMeeting(id).  hasTranscripts: loadMeetingTranscripts returned a
\* non-empty list; backendFolder: get_meeting_folder_path returned a path;
\* audio: what recover_audio_from_checkpoints did; saveOk, markOk, cleanupOk:
\* whether saveMeeting, markMeetingSaved and cleanup_checkpoints resolved.
RecoverMeeting(id, hasTranscripts, backendFolder, audio, saveOk, markOk, cleanupOk) ==
    LET metadata == idbMeetings[id]
        folderPath == metadata.folderPath \/ backendFolder
        calls == RecoverCalls(metadata.present, hasTranscripts, saveOk, markOk)
        cleanupCalled == calls.completed /\ folderPath
        listed == \E k \in 1..Len(recoverableMeetings) :
                      recoverableMeetings[k].meetingId = id
        returns == Returns(calls, cleanupCalled, cleanupOk)
    IN  /\ markedSaved' = IF calls.marked THEN markedSaved \cup {id} ELSE markedSaved
        /\ recoverableMeetings' =
              IF returns
              THEN RemoveFromList(recoverableMeetings, id)
              ELSE recoverableMeetings
        /\ rcLast' = [op |-> "recover", id |-> id,
                      threw |-> ~returns,
                      returned |-> IF returns
                                   THEN [success |-> TRUE,
                                         meetingId |-> SavedMeetingId(id),
                                         audioRecoveryStatus |->
                                             AudioRecoveryStatus(folderPath, audio)]
                                   ELSE NoResult,
                      listBefore |-> recoverableMeetings,
                      folder |-> folderPath, audioAnswer |-> audio,
                      marked |-> calls.marked,
                      metadataFound |-> metadata.present,
                      hasTranscripts |-> hasTranscripts,
                      saveCalled |-> calls.saveCalled, saved |-> calls.saved,
                      markCalled |-> calls.markCalled,
                      cleanupCalled |-> cleanupCalled,
                      cleanupOk |-> cleanupCalled /\ cleanupOk,
                      wasListed |-> listed,
                      audioStatus |-> IF calls.saveCalled
                                      THEN AudioRecoveryStatus(folderPath, audio)
                                      ELSE "none"]
        /\ UNCHANGED <<rcNow, idbMeetings, ssSavedId, ssSavedTs, ssStoppedKey, ssStoppedTs>>
        /\ UNCHANGED notRc

\* What the calls recoverMeeting(id) makes may answer.  A call that is not
\* made has no answer: its input is held at one value.
RecoverInputs(id) ==
    LET found == idbMeetings[id].present
        ownFolder == idbMeetings[id].folderPath
    IN  {in \in [hasTranscripts : IF found THEN BOOLEAN ELSE {FALSE},
                 backendFolder : IF found /\ ~ownFolder THEN BOOLEAN ELSE {FALSE},
                 audio : AudioOutcomes, saveOk : BOOLEAN, markOk : BOOLEAN,
                 cleanupOk : BOOLEAN] :
            /\ in.hasTranscripts \/ (~in.backendFolder /\ in.saveOk)
            /\ (in.hasTranscripts /\ (ownFolder \/ in.backendFolder)) \/ in.audio = "none"
            /\ (in.hasTranscripts /\ in.saveOk) \/ in.markOk
            /\ (in.hasTranscripts /\ in.saveOk /\ in.markOk
                    /\ (ownFolder \/ in.backendFolder)) \/ in.cleanupOk}

\* deleteRecoverableMeeting(id); ok = indexedDBService.deleteMeeting resolved.
DeleteRecoverableMeeting(id, ok) ==
    /\ idbMeetings' = IF ok THEN [idbMeetings EXCEPT ![id] = NoCheckpoint] ELSE idbMeetings
    /\ recoverableMeetings' =
          IF ok THEN RemoveFromList(recoverableMeetings, id)
          ELSE recoverableMeetings
    /\ rcLast' = [op |-> "delete", id |-> id, threw |-> ~ok,
                  listBefore |-> recoverableMeetings]
    /\ UNCHANGED <<rcNow, ssSavedId, ssSavedTs, ssStoppedKey, ssStoppedTs, markedSaved>>
    /\ UNCHANGED notRc

\* Time passes between two calls of the hook.
RcClock ==
    /\ rcNow < RcEpoch + MaxRcClock * RcClockStep
    /\ rcNow' = rcNow + RcClockStep
    /\ rcLast' = NoCall
    /\ UNCHANGED <<idbMeetings, ssSavedId, ssSavedTs, ssStoppedKey, ssStoppedTs,
                   recoverableMeetings, markedSaved>>
    /\ UNCHANGED notRc

\* The scan of the checkpoint store as time passes.
ScanNext ==
    \/ \E getAllOk \in BOOLEAN : \E audio \in [AudioAsked(getAllOk) -> AudioAnswers] :
          CheckForRecoverableTranscripts(getAllOk, audio)
    \/ RcClock

\* Every operation of the recovery hook.
RcNext ==
    \/ \E getAllOk \in BOOLEAN : \E audio \in [AudioAsked(getAllOk) -> AudioAnswers] :
          CheckForRecoverableTranscripts(getAllOk, audio)
    \/ \E id \in CkIds : \E in \in RecoverInputs(id) :
          RecoverMeeting(id, in.hasTranscripts, in.backendFolder, in.audio,
                         in.saveOk, in.markOk, in.cleanupOk)
    \/ \E id \in CkIds, ok \in BOOLEAN : DeleteRecoverableMeeting(id, ok)

(***************************************************************************)
(* Properties of useTranscriptRecovery                                     *)
(***************************************************************************)
\* Meeting i is in recoverableMeetings.
Listed(i) == \E k \in 1..Len(recoverableMeetings) : recoverableMeetings[k].meetingId = i

\* Age of checkpoint i at the instant of the call.
AgeOf(i) == rcNow - idbMeetings[i].lastUpdated

\* Checkpoint i is stored and its age lies strictly between the two thresholds.
AgeInBetween(i) ==
    idbMeetings[i].present /\ AgeOf(i) > MIN_AGE_MS /\ AgeOf(i) < RETENTION_MS

\* The state is the one a successful checkForRecoverableTranscripts left.
JustChecked == rcLast.op = "check" /\ ~rcLast.failed

\* The call found a just-stopped key whose timestamp was under two minutes
\* old, and checkpoint i was updated under two minutes ago.
StopProtected(i) ==
    /\ rcLast.stoppedKey
    /\ rcLast.stoppedTs # NoTimestamp
    /\ rcNow - rcLast.stoppedTs < STOP_WINDOW_MS
    /\ AgeOf(i) < STOP_WINDOW_MS

\* C3 as stated: after a scan no listed checkpoint is younger than 15 s or
\* older than 7 days, and every checkpoint in between whose id is not the
\* just-saved marker is listed.
C3_ListsAllInBetween ==
    JustChecked =>
        \A i \in CkIds :
            /\ Listed(i) => (AgeOf(i) >= MIN_AGE_MS /\ AgeOf(i) <= RETENTION_MS)
            /\ (AgeInBetween(i) /\ i # rcLast.savedId) => Listed(i)

\* C3 amended: after a scan no listed checkpoint is younger than 15 s or
\* older than 7 days, and every checkpoint in between is listed unless its id
\* is the just-saved marker the call read or the just-stopped protection
\* covers it.
C3_ListsInBetweenUnlessProtected ==
    JustChecked =>
        \A i \in CkIds :
            /\ Listed(i) => (AgeOf(i) >= MIN_AGE_MS /\ AgeOf(i) <= RETENTION_MS)
            /\ (AgeInBetween(i) /\ i # rcLast.savedId /\ ~StopProtected(i)) => Listed(i)

\* A scan that lists one checkpoint, hides one that is too young, and hides
\* one in between only because of the just-stopped protection.
C3_Witness ==
    /\ JustChecked
    /\ \E i \in CkIds : Listed(i) /\ AgeInBetween(i)
    /\ \E i \in CkIds :
          AgeInBetween(i) /\ i # rcLast.savedId /\ StopProtected(i) /\ ~Listed(i)

\* C9 as stated: the just-saved meeting is hidden while its marker is at most
\* 5 minutes old; a marker older than 5 minutes hides nothing in that same
\* call; while the just-stopped marker is under 2 minutes old no meeting
\* updated within the last 2 minutes is listed.
C9_MarkersHideWhileFresh ==
    JustChecked =>
        /\ (rcLast.savedId # NoId /\ rcNow - rcLast.savedTs <= SAVED_FLAG_MS)
              => ~Listed(rcLast.savedId)
        /\ (rcLast.savedId # NoId /\ rcNow - rcLast.savedTs > SAVED_FLAG_MS
                /\ AgeInBetween(rcLast.savedId) /\ ~StopProtected(rcLast.savedId))
              => Listed(rcLast.savedId)
        /\ (rcLast.stoppedKey /\ rcNow - rcLast.stoppedTs < STOP_WINDOW_MS)
              => \A i \in CkIds : AgeOf(i) < STOP_WINDOW_MS => ~Listed(i)

\* The state is the one a recoverMeeting call left.
JustRecovered == rcLast.op = "recover"

\* C8: recoverMeeting calls markMeetingSaved and cleanup_checkpoints only
\* after saveMeeting has succeeded; when the metadata is missing, there are
\* no transcripts or saveMeeting fails, it throws, calls neither, and a
\* meeting that was in recoverableMeetings is still in it.
C8_MarkedOnlyAfterSave ==
    JustRecovered =>
        /\ rcLast.markCalled => rcLast.saved
        /\ rcLast.cleanupCalled => (rcLast.saved /\ rcLast.markCalled)
        /\ (~rcLast.metadataFound \/ ~rcLast.hasTranscripts \/ ~rcLast.saved) =>
              /\ rcLast.threw
              /\ ~rcLast.markCalled
              /\ ~rcLast.cleanupCalled
              /\ rcLast.wasListed => Listed(rcLast.id)

\* A listed meeting whose saveMeeting call failed.
C8_Witness ==
    /\ JustRecovered
    /\ rcLast.saveCalled /\ ~rcLast.saved
    /\ rcLast.wasListed /\ Listed(rcLast.id)

(***************************************************************************)
(* Summary generation: useSummaryGeneration, SidebarProvider polling and   *)
(* the summarisation back end behind api_process_transcript,               *)
(* api_get_summary and api_cancel_summary.                                 *)
(***************************************************************************)
MeetingIds == {"m1", "m2"}

\* The meeting whose details page is open (meeting.id of the hook).
ViewedMeeting == "m1"

NoBlocks == -1      \* a section object without a 'blocks' key

\* A summary value. present = FALSE is null / undefined; markdown = TRUE is
\* the new format {markdown: "..."}; otherwise the legacy format, one entry
\* per section with whether it has a 'title' key and how many blocks it has.
\* gen tells summaries of consecutive jobs apart: it is the parity of the
\* number of the job that generated it (0: stored before the page opened).
NoData == [present |-> FALSE, markdown |-> FALSE, gen |-> 0, sections |-> <<>>]

Markdown(g) == [present |-> TRUE, markdown |-> TRUE, gen |-> g, sections |-> <<>>]

Legacy(g, secs) == [present |-> TRUE, markdown |-> FALSE, gen |-> g, sections |-> secs]

Section(hasTitle, blocks) == [title |-> hasTitle, blocks |-> blocks]

\* One section with a block and a second, untitled and empty one.
FilledSections == <<Section(TRUE, 1), Section(FALSE, 0)>>

\* Every section without blocks: an empty array, and no 'blocks' key at all.
VacuousSections == <<Section(TRUE, 0), Section(TRUE, NoBlocks)>>

\* What a job of generation g may produce; NoData is 'completed' without data.
JobResults(g) ==
    {Markdown(g), Legacy(g, FilledSections), Legacy(g, VacuousSections), NoData}

\* The summaries a meeting may have in storage when the page opens.
StoredAtOpen == {NoData, Legacy(0, FilledSections)}

RECURSIVE SumBlocks(_)
SumBlocks(secs) ==
    IF secs = <<>> THEN 0
    ELSE (IF Head(secs).blocks = NoBlocks THEN 0 ELSE Head(secs).blocks)
         + SumBlocks(Tail(secs))

\* The amount of content of a summary: 0 for none and for an empty one.
SizeOf(s) ==
    IF ~s.present THEN 0
    ELSE IF s.markdown THEN 1
    ELSE SumBlocks(s.sections)

\* pollingResult.data is truthy / data.markdown is truthy.
Truthy(data) == data.present

\* An allEmpty that never finds a result empty.
AllEmptyNever(data) == FALSE

\* allEmpty: every section has no 'blocks' or an empty 'blocks'.
AllEmpty(data) ==
    \A i \in 1..Len(data.sections) :
        data.sections[i].blocks = NoBlocks \/ data.sections[i].blocks = 0

RECURSIVE FormatSections(_)
\* formattedSummary: the sections that have both 'title' and 'blocks';
\* the title falls back to the key, so every kept section has one.
FormatSections(secs) ==
    IF secs = <<>> THEN <<>>
    ELSE IF Head(secs).title /\ Head(secs).blocks # NoBlocks
         THEN <<Section(TRUE, Head(secs).blocks)>> \o FormatSections(Tail(secs))
         ELSE FormatSections(Tail(secs))

FormatLegacy(data) == Legacy(data.gen, FormatSections(data.sections))

\* The values of summaryError.
NoError == "null"
ErrTimeout == "timeout"      \* the provider's 15-minute timeout message
ErrBackend == "backend"      \* pollingResult.error or the default message
ErrInvoke == "invoke"        \* the message of a thrown api_get_summary
ErrEmpty == "empty"          \* 'completed but empty content'
ErrBlank == "blank"          \* no transcript text
ErrProcess == "process"      \* api_process_transcript threw

(* ---- back end (not part of the front-end sources) ---- *)

\* No job was ever started for the meeting; `stored` is its summary.
BackendAtOpen(stored) ==
    [status |-> "idle", stored |-> stored, result |-> NoData, jobs |-> 0]

\* process_transcript: a job starts; the stored summary stays in storage.
BackendProcess(b) ==
    [b EXCEPT !.status = "processing", !.result = NoData,
              !.jobs = (b.jobs + 1) % 2]

\* The job finishes; a result with content replaces the stored summary.
BackendComplete(b, result) ==
    [b EXCEPT !.status = "completed", !.result = result,
              !.stored = IF SizeOf(result) > 0 THEN result ELSE b.stored]

\* The job fails or is cancelled: the prior summary is the stored one.
BackendRestore(b, status) == [b EXCEPT !.status = status]

\* cancel_summary: takes effect on a running job only.
BackendCancel(b) ==
    IF b.status = "processing" THEN BackendRestore(b, "cancelled") ELSE b

\* get_summary(meeting_id) -> {status, data?, error?}
GetSummary(b) ==
    [status |-> b.status,
     data |-> IF b.status = "completed" THEN b.result ELSE b.stored,
     error |-> IF b.status \in {"error", "failed"} THEN ErrBackend ELSE NoError]

(* ---- useSummaryGeneration: the polling callback of processSummary ---- *)

\* The part of the hook's state the polling callback writes.
Shown(ai, status, error) ==
    [aiSummary |-> ai, summaryStatus |-> status, summaryError |-> error]

\* The callback awaits a second api_get_summary (the reload) in these cases.
Reloads(pollingResult, isRegeneration) ==
    \/ pollingResult.status = "cancelled"
    \/ pollingResult.status \in {"error", "failed"} /\ isRegeneration

\* A 'cancelled' branch that clears the displayed summary.
OnCancelledClears(pollingResult, reloadOk, existingSummary, cur) ==
    Shown(NoData, "idle", NoError)

\* 'cancelled': show the summary the reload returned, when it returned one.
OnCancelled(pollingResult, reloadOk, existingSummary, cur) ==
    IF reloadOk /\ Truthy(existingSummary.data)
    THEN Shown(existingSummary.data, "completed", NoError)
    ELSE Shown(cur.aiSummary, "idle", NoError)

\* An 'error' / 'failed' branch that never restores and drops the summary.
OnErrorNoRestore(pollingResult, isRegeneration, reloadOk, existingSummary, cur) ==
    Shown(NoData, "error", pollingResult.error)

\* 'error' / 'failed': a regeneration restores the reloaded summary;
\* otherwise, and when the reload failed, the error is shown.
OnError(pollingResult, isRegeneration, reloadOk, existingSummary, cur) ==
    IF isRegeneration /\ reloadOk /\ Truthy(existingSummary.data)
    THEN Shown(existingSummary.data, "completed", NoError)
    ELSE Shown(cur.aiSummary, "error", pollingResult.error)

\* 'completed' with data: markdown is shown as it is, legacy sections are
\* formatted, and a result whose sections are all empty is an error.
OnCompleted(pollingResult, cur) ==
    IF pollingResult.data.markdown
    THEN Shown(pollingResult.data, "completed", cur.summaryError)
    ELSE IF AllEmpty(pollingResult.data)
    THEN Shown(cur.aiSummary, "error", ErrEmpty)
    ELSE Shown(FormatLegacy(pollingResult.data), "completed", cur.summaryError)

\* async (pollingResult) => { ... } handed to startSummaryPolling.
OnUpdate(pollingResult, isRegeneration, reloadOk, existingSummary, cur) ==
    IF pollingResult.status = "cancelled"
    THEN OnCancelled(pollingResult, reloadOk, existingSummary, cur)
    ELSE IF pollingResult.status \in {"error", "failed"}
    THEN OnError(pollingResult, isRegeneration, reloadOk, existingSummary, cur)
    ELSE IF pollingResult.status = "completed" /\ Truthy(pollingResult.data)
    THEN OnCompleted(pollingResult, cur)
    ELSE cur

\* The hook's state as the callback sees it.
Current == Shown(aiSummary, summaryStatus, summaryError)

\* The callback's writes applied to the hook. The callback of a poll of
\* another meeting belongs to that meeting's page and writes nothing here.
Deliver(pollingResult, isRegeneration, reloadOk, m) ==
    LET new == OnUpdate(pollingResult, isRegeneration, reloadOk,
                        GetSummary(backend[m]), Current)
    IN  IF m = ViewedMeeting
        THEN /\ aiSummary' = new.aiSummary
             /\ summaryStatus' = new.summaryStatus
             /\ summaryError' = new.summaryError
        ELSE UNCHANGED <<aiSummary, summaryStatus, summaryError>>

(* ---- SidebarProvider: timers and the activeSummaryPolls map ---- *)

NoTimer == 0        \* Map.get(meetingId) is undefined

NewTimer(m, isRegeneration) ==
    [meetingId |-> m, isRegeneration |-> isRegeneration, pollCount |-> 0,
     live |-> TRUE, inflight |-> 0, failed |-> FALSE]

TimerIds == 1..Len(timers)

\* clearInterval(id); clearing a cleared timer changes nothing.
ClearInterval(ts, id) ==
    IF id = NoTimer THEN ts ELSE [ts EXCEPT ![id].live = FALSE]

\* next.delete(meetingId)
MapDelete(map, m) == [map EXCEPT ![m] = NoTimer]

\* A poll that stops on every 'idle' result, also on the first one.
StopsPollingOnAnyIdle(pollingResult, pollCount) ==
    pollingResult.status \in {"completed", "error", "failed", "cancelled", "idle"}

\* The poll stops on these results (lines 232 and 240).
StopsPolling(pollingResult, pollCount) ==
    \/ pollingResult.status \in {"completed", "error", "failed", "cancelled"}
    \/ pollingResult.status = "idle" /\ pollCount > 1

\* The result the provider makes up: for the timeout and for a failed call.
MadeUpError(message) == [status |-> "error", data |-> NoData, error |-> message]

\* A cleared timer with no request in flight runs no code any more: its
\* closure (pollCount, onUpdate) is forgotten.
Settle(tm) ==
    IF tm.live \/ tm.inflight > 0 THEN tm
    ELSE [tm EXCEPT !.pollCount = 0, !.isRegeneration = FALSE, !.failed = FALSE]

SettleAll(ts) == [t \in 1..Len(ts) |-> Settle(ts[t])]

NoObs == [op |-> "none", isRegeneration |-> FALSE, late |-> FALSE, reload |-> "none"]

\* What a delivery to the callback of timer t was: the provider's step, the
\* callback's isRegeneration, whether the timer had timed out before, and
\* how the callback's reload went.
Obs(op, t, pollingResult, reloadOk) ==
    [op |-> IF timers[t].meetingId = ViewedMeeting THEN op ELSE "other",
     isRegeneration |-> timers[t].isRegeneration,
     late |-> timers[t].pollCount >= MAX_POLLS,
     reload |-> IF ~Reloads(pollingResult, timers[t].isRegeneration) THEN "none"
                ELSE IF reloadOk THEN "ok" ELSE "throws"]

(* ---- actions ---- *)

NoText == 0         \* the empty string as a transcript text

\* The transcriptText of a processSummary call: handleGenerateSummary builds
\* a text from the stored segments (the text of the k-th call is k),
\* handleRegenerateSummary passes originalTranscript.
TranscriptText(isRegeneration) ==
    IF isRegeneration THEN originalTranscript ELSE runCount + 1

\* The page of ViewedMeeting has just opened: no poll, no job, and the
\* stored summary (if any) is displayed.
SmInit ==
    /\ timers = <<>>
    /\ activeSummaryPolls = [m \in MeetingIds |-> NoTimer]
    /\ renderedPolls = [m \in MeetingIds |-> NoTimer]
    /\ pollsChanged = FALSE
    /\ summaryStatus = "idle"
    /\ summaryError = NoError
    /\ originalTranscript = NoText
    /\ \E stored \in StoredAtOpen :
        /\ aiSummary = stored
        /\ backend = [m \in MeetingIds |-> BackendAtOpen(IF m = ViewedMeeting THEN stored ELSE NoData)]
    /\ pendingRuns = <<>>
    /\ runCount = 0
    /\ smLast = NoObs

\* No meeting page is open: nothing moves.
SmIdle ==
    /\ timers = <<>>
    /\ activeSummaryPolls = [m \in MeetingIds |-> NoTimer]
    /\ renderedPolls = [m \in MeetingIds |-> NoTimer]
    /\ pollsChanged = FALSE
    /\ summaryStatus = "idle"
    /\ summaryError = NoError
    /\ originalTranscript = NoText
    /\ aiSummary = NoData
    /\ backend = [m \in MeetingIds |-> BackendAtOpen(NoData)]
    /\ pendingRuns = <<>>
    /\ runCount = 0
    /\ smLast = NoObs

\* processSummary up to its await of api_process_transcript. The call keeps
\* the startSummaryPolling of the render it was made in, which reads that
\* render's activeSummaryPolls.
ProcessSummaryCall(isRegeneration, blank) ==
    /\ runCount < MaxRuns
    /\ runCount' = runCount + 1
    /\ IF blank
       THEN /\ summaryStatus' = "error"
            /\ summaryError' = ErrBlank
            /\ UNCHANGED <<originalTranscript, pendingRuns>>
       ELSE /\ summaryStatus' = IF isRegeneration THEN "regenerating" ELSE "processing"
            /\ summaryError' = NoError
            /\ originalTranscript' = IF isRegeneration THEN originalTranscript
                                     ELSE TranscriptText(isRegeneration)
            /\ pendingRuns' = Append(pendingRuns,
                   [isRegeneration |-> isRegeneration,
                    text |-> TranscriptText(isRegeneration),
                    captured |-> renderedPolls[ViewedMeeting]])
    /\ smLast' = [NoObs EXCEPT !.op = IF isRegeneration THEN "regenerate" ELSE "none"]
    /\ UNCHANGED <<providerVars, aiSummary, backend>>

\* processSummary called with nothing else of the page moving.
ProcessSummaryBegin(isRegeneration, blank) ==
    /\ ProcessSummaryCall(isRegeneration, blank)
    /\ UNCHANGED notSm

\* handleGenerateSummary, from the point where it calls processSummary.
HandleGenerateSummary(blank) == ProcessSummaryBegin(FALSE, blank)

\* A handleRegenerateSummary without its guard.
CanRegenerateAlways == TRUE

\* if (!originalTranscript.trim()) return;
CanRegenerate == originalTranscript # NoText

\* handleRegenerateSummary: processSummary with the stored text, or nothing
\* when no text is stored.
HandleRegenerateSummary ==
    IF CanRegenerate
    THEN ProcessSummaryBegin(TRUE, originalTranscript = NoText)
    ELSE /\ smLast' = [NoObs EXCEPT !.op = "regenerate"]
         /\ UNCHANGED <<providerVars, hookVars, backend, notSm>>

\* The run without its i-th element.
RemoveAt(s, i) == [k \in 1..(Len(s) - 1) |-> IF k < i THEN s[k] ELSE s[k + 1]]

\* startSummaryPolling(meetingId, processId, onUpdate) as called from a
\* closure whose activeSummaryPolls holds `captured` for the meeting.
StartSummaryPolling(m, isRegeneration, captured) ==
    /\ timers' = Append(SettleAll(ClearInterval(timers, captured)), NewTimer(m, isRegeneration))
    /\ activeSummaryPolls' = [activeSummaryPolls EXCEPT ![m] = Len(timers) + 1]
    /\ pollsChanged' = TRUE
    /\ UNCHANGED renderedPolls

\* api_process_transcript answers the i-th waiting processSummary call with
\* a process id, and the call starts the poll.
ProcessTranscriptReturns(i) ==
    /\ i \in 1..Len(pendingRuns)
    /\ pendingRuns' = RemoveAt(pendingRuns, i)
    /\ backend' = [backend EXCEPT ![ViewedMeeting] = BackendProcess(@)]
    /\ StartSummaryPolling(ViewedMeeting, pendingRuns[i].isRegeneration,
                           pendingRuns[i].captured)
    /\ smLast' = NoObs
    /\ UNCHANGED <<summaryStatus, summaryError, originalTranscript, aiSummary,
                   runCount, notSm>>

\* api_process_transcript throws: the catch block of processSummary.
ProcessTranscriptFails(i) ==
    /\ i \in 1..Len(pendingRuns)
    /\ pendingRuns' = RemoveAt(pendingRuns, i)
    /\ summaryError' = ErrProcess
    /\ summaryStatus' = "error"
    /\ smLast' = NoObs
    /\ UNCHANGED <<providerVars, originalTranscript, aiSummary, runCount,
                   backend, notSm>>

\* if (pollCount >= MAX_POLLS)
TimedOut(pollCount) == pollCount >= MAX_POLLS

\* A tick of timer t before the timeout: api_get_summary is invoked. The
\* interval is 5000 ms, so a pending render has happened before any tick.
PollTick(t) ==
    /\ t \in TimerIds
    /\ timers[t].live /\ ~pollsChanged
    /\ ~TimedOut(timers[t].pollCount + 1)
    /\ timers[t].inflight = 0
    /\ timers' = [timers EXCEPT ![t].pollCount = @ + 1, ![t].inflight = @ + 1]
    /\ smLast' = NoObs
    /\ UNCHANGED <<activeSummaryPolls, renderedPolls, pollsChanged, hookVars,
                   backend, notSm>>

\* A tick that comes while an earlier api_get_summary call of the timer is
\* still unanswered (a call that takes longer than the 5000 ms interval):
\* setInterval does not wait for the async callback.
PollTickWhileWaiting(t) ==
    /\ t \in TimerIds
    /\ timers[t].live /\ ~pollsChanged
    /\ ~TimedOut(timers[t].pollCount + 1)
    /\ timers[t].inflight > 0 /\ timers[t].inflight < MaxInflight
    /\ timers' = [timers EXCEPT ![t].pollCount = @ + 1, ![t].inflight = @ + 1]
    /\ smLast' = NoObs
    /\ UNCHANGED <<activeSummaryPolls, renderedPolls, pollsChanged, hookVars,
                   backend, notSm>>

\* The tick that reaches MAX_POLLS: the timer is cleared, the meeting is
\* deleted from the map and the callback gets the timeout error.
PollTimeout(t, reloadOk) ==
    /\ t \in TimerIds
    /\ timers[t].live /\ ~pollsChanged
    /\ TimedOut(timers[t].pollCount + 1)
    /\ timers' = SettleAll([timers EXCEPT ![t].pollCount = @ + 1, ![t].live = FALSE])
    /\ activeSummaryPolls' = MapDelete(activeSummaryPolls, timers[t].meetingId)
    /\ pollsChanged' = TRUE
    /\ Deliver(MadeUpError(ErrTimeout), timers[t].isRegeneration, reloadOk,
               timers[t].meetingId)
    /\ smLast' = Obs("timeout", t, MadeUpError(ErrTimeout), reloadOk)
    /\ UNCHANGED <<renderedPolls, originalTranscript, pendingRuns, runCount,
                   backend, notSm>>

\* The api_get_summary call of timer t answers: onUpdate(result), then the
\* poll stops on a terminal result. The answer also arrives when the timer
\* was cleared in the meantime.
PollResponse(t, reloadOk) ==
    /\ t \in TimerIds
    /\ timers[t].inflight > 0
    /\ LET m == timers[t].meetingId
           result == GetSummary(backend[m])
       IN  /\ Deliver(result, timers[t].isRegeneration, reloadOk, m)
           /\ smLast' = Obs("response", t, result, reloadOk)
           /\ IF StopsPolling(result, timers[t].pollCount)
              THEN /\ timers' = SettleAll([timers EXCEPT ![t].inflight = @ - 1, ![t].live = FALSE])
                   /\ activeSummaryPolls' = MapDelete(activeSummaryPolls, m)
                   /\ pollsChanged' = TRUE
              ELSE /\ timers' = SettleAll([timers EXCEPT ![t].inflight = @ - 1])
                   /\ UNCHANGED <<activeSummaryPolls, pollsChanged>>
    /\ UNCHANGED <<renderedPolls, originalTranscript, pendingRuns, runCount,
                   backend, notSm>>

\* The api_get_summary call of timer t throws: the catch block.
PollCallFails(t, reloadOk) ==
    /\ t \in TimerIds
    /\ timers[t].inflight > 0
    /\ Deliver(MadeUpError(ErrInvoke), timers[t].isRegeneration, reloadOk,
               timers[t].meetingId)
    /\ smLast' = Obs("callFailed", t, MadeUpError(ErrInvoke), reloadOk)
    /\ timers' = SettleAll([timers EXCEPT ![t].inflight = @ - 1, ![t].live = FALSE,
                                         ![t].failed = TRUE])
    /\ activeSummaryPolls' = MapDelete(activeSummaryPolls, timers[t].meetingId)
    /\ pollsChanged' = TRUE
    /\ UNCHANGED <<renderedPolls, originalTranscript, pendingRuns, runCount,
                   backend, notSm>>

\* stopSummaryPolling(meetingId) as called from a closure whose
\* activeSummaryPolls holds `captured` for the meeting.
StopSummaryPolling(m, captured) ==
    IF captured # NoTimer
    THEN /\ timers' = SettleAll(ClearInterval(timers, captured))
         /\ activeSummaryPolls' = MapDelete(activeSummaryPolls, m)
         /\ pollsChanged' = TRUE
    ELSE UNCHANGED <<timers, activeSummaryPolls, pollsChanged>>

\* handleStopGeneration: api_cancel_summary (a failure is only logged),
\* stopSummaryPolling, status 'idle', error null.
HandleStopGeneration(cancelOk) ==
    /\ backend' = IF cancelOk
                  THEN [backend EXCEPT ![ViewedMeeting] = BackendCancel(@)]
                  ELSE backend
    /\ StopSummaryPolling(ViewedMeeting, renderedPolls[ViewedMeeting])
    /\ summaryStatus' = "idle"
    /\ summaryError' = NoError
    /\ smLast' = [NoObs EXCEPT !.op = "stop"]
    /\ UNCHANGED <<renderedPolls, originalTranscript, aiSummary, pendingRuns,
                   runCount, notSm>>

\* The timers the map of the last render holds.
RenderedTimers == {renderedPolls[m] : m \in MeetingIds} \ {NoTimer}

\* What the page is opened with (source, isAutoSummary) and what the stores
\* hold for the meeting: a summary, transcripts, a model in the configuration.
MdEnvs ==
    [source : {"recording", "other"}, isAutoSummary : BOOLEAN, hasSummary : BOOLEAN,
     hasTranscripts : BOOLEAN, configModel : BOOLEAN]

NoMdObs == [op |-> "none"]

\* The state of a page that was just mounted (or whose meetingId just changed).
PageFresh ==
    /\ meetingDetails = "null"
    /\ meetingSummary = FALSE
    /\ mdIsLoading = TRUE
    /\ isLoadingTranscripts = TRUE
    /\ hasCheckedAutoGen = FALSE
    /\ shouldAutoGenerate = FALSE
    /\ setupCalls = <<>>
    /\ autoRunning = FALSE
    /\ autoCount = 0
    /\ mdLast = NoMdObs

AgIdle ==
    /\ mdEnv = [source |-> "other", isAutoSummary |-> FALSE, hasSummary |-> FALSE,
                hasTranscripts |-> FALSE, configModel |-> FALSE]
    /\ PageFresh

\* The details page is open on ViewedMeeting and stays open.
MdIdle == pageMounted = TRUE /\ AgIdle

\* The cleanup of the page's effect on [meetingId, stopSummaryPolling] runs
\* with the stopSummaryPolling of the previous render, which acts when that
\* render's map holds the meeting.
PageCleanupStops == pageMounted /\ renderedPolls[ViewedMeeting] # NoTimer

\* The provider re-renders after setActiveSummaryPolls: the cleanup of the
\* effect on [activeSummaryPolls] clears every interval of the previous map;
\* stopSummaryPolling is a new function, so the cleanup of the page's effect
\* runs too and calls the previous stopSummaryPolling(meetingId), whose
\* setActiveSummaryPolls makes the provider render once more. The closures
\* made in this render read the map of this render.
Render ==
    /\ pollsChanged
    /\ timers' = SettleAll([t \in TimerIds |->
                     IF t \in RenderedTimers
                     THEN [timers[t] EXCEPT !.live = FALSE] ELSE timers[t]])
    /\ renderedPolls' = activeSummaryPolls
    /\ activeSummaryPolls' = IF PageCleanupStops
                             THEN MapDelete(activeSummaryPolls, ViewedMeeting)
                             ELSE activeSummaryPolls
    /\ pollsChanged' = PageCleanupStops
    /\ smLast' = [NoObs EXCEPT !.op = IF PageCleanupStops THEN "pageCleanup" ELSE "none"]
    /\ UNCHANGED <<hookVars, backend, notSm>>

\* The user leaves the page (the meeting id changes or the page unmounts):
\* the cleanup of the page's effect calls stopSummaryPolling(meetingId) of
\* the last render.
LeavePage ==
    /\ pageMounted /\ ~pollsChanged
    /\ pageMounted' = FALSE
    /\ StopSummaryPolling(ViewedMeeting, renderedPolls[ViewedMeeting])
    /\ smLast' = [NoObs EXCEPT !.op = "leave"]
    /\ UNCHANGED <<renderedPolls, hookVars, backend, pgVars, rcVars, imVars,
                   dbVars, genVars, fmVars, mmVars, dsVars, agVars, swVars>>

\* The running job of meeting m finishes with a result. The back end's moves
\* are taken between renders; a render does not depend on them.
JobCompletes(m, result) ==
    /\ backend[m].status = "processing"
    /\ ~pollsChanged
    /\ backend' = [backend EXCEPT ![m] = BackendComplete(@, result)]
    /\ smLast' = NoObs
    /\ UNCHANGED <<providerVars, hookVars, notSm>>

\* The running job of meeting m ends with 'error' or 'failed'.
JobFails(m, status) ==
    /\ backend[m].status = "processing"
    /\ ~pollsChanged
    /\ backend' = [backend EXCEPT ![m] = BackendRestore(@, status)]
    /\ smLast' = NoObs
    /\ UNCHANGED <<providerVars, hookVars, notSm>>

\* A terminal job state is dropped: get_summary answers 'idle' again.
JobForgotten(m) ==
    /\ backend[m].status \in {"completed", "error", "failed", "cancelled"}
    /\ ~pollsChanged
    /\ backend' = [backend EXCEPT ![m].status = "idle", ![m].result = NoData]
    /\ smLast' = NoObs
    /\ UNCHANGED <<providerVars, hookVars, notSm>>

\* The meeting whose page is not the one of this hook.
OtherMeeting == "m2"

\* The timers startSummaryPolling has created for meeting m.
TimersOf(m) == {t \in TimerIds : timers[t].meetingId = m}

\* The page of the other meeting starts a summary: its api_process_transcript
\* has answered and its processSummary calls startSummaryPolling from the
\* current render.
OtherMeetingStarts ==
    /\ ~pollsChanged
    /\ Cardinality(TimersOf(OtherMeeting)) < MaxOtherRuns
    /\ backend' = [backend EXCEPT ![OtherMeeting] = BackendProcess(@)]
    /\ StartSummaryPolling(OtherMeeting, FALSE, renderedPolls[OtherMeeting])
    /\ smLast' = [NoObs EXCEPT !.op = "other"]
    /\ UNCHANGED <<hookVars, notSm>>

\* The page of the other meeting calls stopSummaryPolling from the current
\* render.
OtherMeetingStops ==
    /\ ~pollsChanged
    /\ renderedPolls[OtherMeeting] # NoTimer
    /\ StopSummaryPolling(OtherMeeting, renderedPolls[OtherMeeting])
    /\ smLast' = [NoObs EXCEPT !.op = "other"]
    /\ UNCHANGED <<renderedPolls, hookVars, backend, notSm>>

\* The user starts a job.
Starts ==
    \/ \E blank \in BOOLEAN : HandleGenerateSummary(blank)
    \/ HandleRegenerateSummary

\* Everything else: answers, ticks, renders, stops and the back end's moves.
Steps ==
    \/ \E i \in 1..Len(pendingRuns) : ProcessTranscriptReturns(i)
    \/ \E i \in 1..Len(pendingRuns) : ProcessTranscriptFails(i)
    \/ \E t \in TimerIds : PollTick(t)
    \/ \E t \in TimerIds, reloadOk \in BOOLEAN : PollTimeout(t, reloadOk)
    \/ \E t \in TimerIds, reloadOk \in BOOLEAN : PollResponse(t, reloadOk)
    \/ \E t \in TimerIds, reloadOk \in BOOLEAN : PollCallFails(t, reloadOk)
    \/ \E cancelOk \in BOOLEAN : HandleStopGeneration(cancelOk)
    \/ Render
    \/ \E result \in JobResults(backend[ViewedMeeting].jobs) :
           JobCompletes(ViewedMeeting, result)
    \/ \E status \in {"error", "failed"} : JobFails(ViewedMeeting, status)
    \/ JobForgotten(ViewedMeeting)

Next == Starts \/ Steps

(***************************************************************************)
(* Properties of summary generation                                        *)
(***************************************************************************)
\* The poll result the back end gives for the viewed meeting.
ViewedResult == GetSummary(backend[ViewedMeeting])

\* The summary in storage for the viewed meeting.
StoredSummary == backend[ViewedMeeting].stored

\* The timers of meeting m that still tick.
LiveTimers(m) == {t \in TimerIds : timers[t].meetingId = m /\ timers[t].live}

\* The timers of meeting m with an api_get_summary call in flight.
WaitingTimers(m) == {t \in TimerIds : timers[t].meetingId = m /\ timers[t].inflight > 0}

\* A step in which the cancellation of a regeneration reaches the hook:
\* handleStopGeneration while 'regenerating', or a 'cancelled' poll result
\* delivered to the callback of a regeneration.
StopsRegeneration == smLast'.op = "stop" /\ summaryStatus = "regenerating"

CancelledDelivered ==
    /\ smLast'.op = "response" /\ smLast'.isRegeneration
    /\ ViewedResult.status = "cancelled"

CancelKeepsSummary ==
    /\ StopsRegeneration =>
        /\ aiSummary' = aiSummary
        /\ summaryStatus' = "idle" /\ summaryError' = NoError
    /\ CancelledDelivered =>
        /\ aiSummary' \in {aiSummary, StoredSummary}
        /\ (smLast'.reload = "ok" /\ StoredSummary.present) =>
               (aiSummary' = StoredSummary /\ summaryStatus' = "completed")
        /\ aiSummary.present => aiSummary'.present
        /\ summaryStatus' \in {"completed", "idle"} /\ summaryError' = NoError
        /\ summaryStatus' = "completed" => aiSummary'.present

C4_SilentAfterTimeout ==
    ~(smLast.op \in {"response", "callFailed"} /\ smLast.late)

\* C5: at every moment at most one polling timer is live per meeting id.
C5_OneLiveTimerPerMeeting ==
    \A m \in MeetingIds : Cardinality(LiveTimers(m)) <= 1

\* No job of the viewed meeting is under way on the front end: no
\* processSummary call is waiting to start a poll, no timer ticks and no
\* poll answer is outstanding.
NoJobUnderWay ==
    /\ pendingRuns = <<>>
    /\ LiveTimers(ViewedMeeting) = {}
    /\ WaitingTimers(ViewedMeeting) = {}

\* Polling for the viewed meeting has ended.
PollingEnded == runCount > 0 /\ NoJobUnderWay

\* C6: whenever polling has ended, summaryStatus is not left in
\* 'processing' or 'regenerating'.
C6_NotStuckProcessing ==
    PollingEnded => summaryStatus \notin {"processing", "regenerating"}

\* A step in which a poll result 'error' or 'failed' reaches the callback.
FailureDelivered ==
    /\ smLast'.op = "response"
    /\ ViewedResult.status \in {"error", "failed"}

\* What api_get_summary holds as the meeting's summary after the failure:
\* the previous summary, which the callback's reload asks for.
PreviousSummary == ViewedResult.data

Restored ==
    /\ aiSummary' = PreviousSummary
    /\ summaryStatus' = "completed"
    /\ summaryError' = NoError

FirstTimeFailure ==
    ~smLast'.isRegeneration =>
        (summaryStatus' = "error" /\ summaryError' = ViewedResult.error)

FailedRegenerationAlwaysRestores ==
    FailureDelivered =>
        /\ (smLast'.isRegeneration /\ PreviousSummary.present) => Restored
        /\ smLast'.isRegeneration => SizeOf(aiSummary') >= SizeOf(aiSummary)
        /\ FirstTimeFailure

FailedRegenerationRestores ==
    FailureDelivered =>
        /\ (smLast'.isRegeneration /\ PreviousSummary.present /\ smLast'.reload = "ok")
               => Restored
        /\ (smLast'.isRegeneration /\ smLast'.reload = "throws") =>
               /\ aiSummary' = aiSummary
               /\ summaryStatus' = "error" /\ summaryError' = ViewedResult.error
        /\ smLast'.isRegeneration => SizeOf(aiSummary') >= SizeOf(aiSummary)
        /\ FirstTimeFailure

\* C7 as claimed: a poll result 'error' or 'failed' during a regeneration
\* with a previous summary in storage always shows that summary with status
\* 'completed' and no error; the displayed summary never gets smaller; a
\* first-time generation gets status 'error' with the message.
C7_FailedRegenerationAlwaysRestores == [][FailedRegenerationAlwaysRestores]_vars

\* C7 as the code has it: the previous summary is shown, with status
\* 'completed' and no error, when the reload (api_get_summary) returns it;
\* when the reload throws, the displayed summary stays and the status is
\* 'error' with the message; the displayed summary never gets smaller; a
\* first-time generation gets status 'error' with the message.
C7_FailedRegenerationRestores == [][FailedRegenerationRestores]_vars

\* C7 happens: a failed regeneration whose reload brought back the summary.
C7_Witness ==
    /\ smLast.op = "response" /\ smLast.isRegeneration /\ smLast.reload = "ok"
    /\ ViewedResult.status \in {"error", "failed"}
    /\ aiSummary.present /\ aiSummary = PreviousSummary
    /\ summaryStatus = "completed" /\ summaryError = NoError

\* A 'completed' result in the legacy format without any block.
VacuousResult ==
    /\ ViewedResult.status = "completed"
    /\ ViewedResult.data.present /\ ~ViewedResult.data.markdown
    /\ SizeOf(ViewedResult.data) = 0

VacuousIsFailure ==
    (smLast'.op = "response" /\ VacuousResult) =>
        /\ summaryStatus' = "error"
        /\ summaryError' # NoError
        /\ aiSummary' = aiSummary

\* C10: a completed legacy result whose sections all have no blocks sets
\* summaryStatus 'error' and summaryError, and leaves the displayed summary.
C10_VacuousIsFailure == [][VacuousIsFailure]_vars

\* C10 happens: such a result was delivered while a summary was displayed.
C10_Witness ==
    /\ smLast.op = "response" /\ VacuousResult
    /\ summaryStatus = "error" /\ summaryError = ErrEmpty
    /\ aiSummary.present

\* A step in which processSummary starts (its first lines run).
ProcessSummaryStarts == runCount' = runCount + 1

\* A step in which a 'cancelled' poll result reaches the callback and its
\* reload brings back no stored summary.
CancelledWithoutSummary ==
    /\ smLast'.op = "response"
    /\ ViewedResult.status = "cancelled"
    /\ ~(smLast'.reload = "ok" /\ Truthy(ViewedResult.data))

StatusStep ==
    summaryStatus' # summaryStatus =>
        /\ summaryStatus' \in {"processing", "regenerating"} => ProcessSummaryStarts
        /\ summaryStatus' \in {"completed", "error"} =>
               (summaryStatus \in {"processing", "regenerating"} \/ ProcessSummaryStarts)
        /\ summaryStatus' = "idle" =>
               (smLast'.op = "stop" \/ CancelledWithoutSummary)

\* C11: summaryStatus becomes 'processing' or 'regenerating' only when
\* processSummary starts, becomes 'completed' or 'error' only from
\* 'processing' or 'regenerating' (or within the processSummary call that
\* set them), and becomes 'idle' only by handleStopGeneration or by a
\* 'cancelled' result without a stored summary; in particular it never goes
\* from 'idle' to 'completed' or 'error'.
C11_StatusStateMachine == [][StatusStep]_vars

\* The timer whose api_get_summary call is answered in this step.
Answered(t) == t \in TimerIds /\ timers'[t].inflight < timers[t].inflight

\* The answer is one on which the poll of timer t ends.
EndsPoll(t) ==
    \/ ViewedResult.status \in {"completed", "error", "failed", "cancelled"}
    \/ ViewedResult.status = "idle" /\ timers[t].pollCount > 1

PollStopsOnTerminal ==
    /\ smLast'.op = "response" =>
          \A t \in TimerIds : Answered(t) =>
              IF EndsPoll(t)
              THEN /\ ~timers'[t].live
                   /\ activeSummaryPolls'[timers[t].meetingId] = NoTimer
              ELSE /\ timers'[t].live = timers[t].live
                   /\ activeSummaryPolls' = activeSummaryPolls
    /\ \A t \in TimerIds :
          ~timers[t].live => timers'[t].inflight <= timers[t].inflight

TicksBounded ==
    \A t \in TimerIds :
        /\ timers[t].pollCount <= MAX_POLLS
        /\ timers[t].live => timers[t].pollCount < MAX_POLLS

\* An api_get_summary call is made by a tick of a live timer, and by none
\* but the first MAX_POLLS - 1 ticks; the tick that times out clears the
\* timer and removes the meeting from the map.
CallsBounded ==
    /\ \A t \in TimerIds :
          timers'[t].inflight > timers[t].inflight =>
              /\ timers[t].live
              /\ timers'[t].pollCount = timers[t].pollCount + 1
              /\ timers'[t].pollCount <= MAX_POLLS - 1
    /\ smLast'.op = "timeout" =>
          \A t \in TimerIds :
              (timers[t].live /\ ~timers'[t].live) =>
                  activeSummaryPolls'[timers[t].meetingId] = NoTimer

\* Timer t is live / is cleared and no longer the registered poll of its meeting.
Polling(t) == t \in TimerIds /\ timers[t].live

Ended(t) ==
    /\ t \in TimerIds /\ ~timers[t].live
    /\ activeSummaryPolls[timers[t].meetingId] # t

\* C25: every summary poll ends, whatever the backend answers: a timer ticks
\* at most MAX_POLLS times, makes an api_get_summary call on at most the
\* first MAX_POLLS - 1 of them, and (the interval firing and the calls
\* answering) is in the end cleared and no longer registered for its meeting.
C25_PollTerminates ==
    /\ []TicksBounded
    /\ [][CallsBounded]_vars
    /\ \A t \in 1..(MaxRuns + MaxOtherRuns) : Polling(t) ~> Ended(t)

\* The catch block runs for the answered call of timer t: the callback gets
\* the made-up 'error' result, and gets it for the first time in this poll;
\* the timer is cleared and the meeting is not in the map.
CallFailsOnce ==
    smLast'.op = "callFailed" =>
        \A t \in TimerIds : Answered(t) =>
            /\ ~timers[t].failed
            /\ ~timers'[t].live
            /\ activeSummaryPolls'[timers[t].meetingId] = NoTimer
            /\ Shown(aiSummary', summaryStatus', summaryError') =
                   OnUpdate(MadeUpError(ErrInvoke), timers[t].isRegeneration,
                            smLast'.reload = "ok", ViewedResult, Current)

\* C26: when api_get_summary throws during a poll, the poll's callback
\* receives status 'error' with the error message exactly once, the timer is
\* cleared and the meeting is removed from activeSummaryPolls.
C26_CallFailsOnce == [][CallFailsOnce]_vars

\* handleStopGeneration has just finished and no processSummary call is
\* waiting for api_process_transcript: unless processSummary is called, the
\* next step leaves the status 'idle' and the displayed summary alone.
StaysStopped ==
    (smLast.op = "stop" /\ pendingRuns = <<>> /\ runCount' = runCount) =>
        /\ summaryStatus' = "idle"
        /\ aiSummary' = aiSummary

\* C28: after handleStopGeneration has finished, summaryStatus stays 'idle'
\* and the displayed summary stays unchanged until the user starts a new
\* generation; the answer to a poll request that was in flight when the
\* timer was cleared does not set 'completed' or 'error' or replace the
\* summary.
C28_StaysIdleAfterStop == [][StaysStopped]_vars

\* The processSummary call that has just begun to wait for
\* api_process_transcript.
Submitted == pendingRuns'[Len(pendingRuns')]

\* A step of handleRegenerateSummary submits the stored text and leaves it
\* stored, or changes nothing when none is stored; originalTranscript changes
\* only in a first-time generation, to the text that generation submits.
RegeneratesOriginal ==
    /\ smLast'.op = "regenerate" =>
          IF originalTranscript = NoText
          THEN /\ pendingRuns' = pendingRuns /\ runCount' = runCount
               /\ summaryStatus' = summaryStatus /\ summaryError' = summaryError
               /\ originalTranscript' = NoText
          ELSE /\ Len(pendingRuns') = Len(pendingRuns) + 1
               /\ Submitted.isRegeneration /\ Submitted.text = originalTranscript
               /\ originalTranscript' = originalTranscript
    /\ Len(pendingRuns') > Len(pendingRuns) =>
          /\ Submitted.text # NoText
          /\ originalTranscript' = IF Submitted.isRegeneration
                                   THEN originalTranscript ELSE Submitted.text
    /\ originalTranscript' # originalTranscript =>
          /\ Len(pendingRuns') > Len(pendingRuns)
          /\ ~Submitted.isRegeneration

\* C30: handleRegenerateSummary submits exactly the transcript text of the
\* most recent first-time generation (regenerations never change the stored
\* original), and does nothing (no status change, no backend call) when no
\* first-time generation has been submitted.
C30_RegeneratesOriginal == [][RegeneratesOriginal]_vars

\* C30 happens: after a first-time generation that has ended, a regeneration
\* has submitted its text.
C30_Witness ==
    /\ smLast.op = "regenerate" /\ summaryStatus = "regenerating"
    /\ runCount = 2 /\ originalTranscript = 1
    /\ pendingRuns = <<[isRegeneration |-> TRUE, text |-> 1,
                        captured |-> renderedPolls[ViewedMeeting]]>>

\* Leaving the page ends the poll of the meeting: none of its timers is live
\* and the meeting is not in the map.
LeavingStopsPoll ==
    smLast'.op = "leave" =>
        /\ \A t \in TimerIds : timers[t].meetingId = ViewedMeeting => ~timers'[t].live
        /\ activeSummaryPolls'[ViewedMeeting] = NoTimer

\* While the page stays open, a run of the page's cleanup leaves the running
\* poll of the viewed meeting registered and ticking.
CleanupKeepsPoll ==
    (smLast'.op = "pageCleanup" /\ pageMounted') =>
        LET t == activeSummaryPolls[ViewedMeeting]
        IN  (t # NoTimer /\ timers[t].live) =>
                /\ activeSummaryPolls'[ViewedMeeting] = t
                /\ timers'[t].live

\* C31: leaving a meeting's details page (the meeting id changes or the page
\* unmounts) stops the summary poll of that meeting, and the poll of the
\* meeting being viewed is not stopped by this cleanup while the user stays
\* on the page.
C31_CleanupOnLeaveOnly == [][LeavingStopsPoll /\ CleanupKeepsPoll]_vars

\* A meeting id is in activeSummaryPolls exactly when its timer is live.
RegistryMatchesTimers ==
    /\ \A m \in MeetingIds :
          activeSummaryPolls[m] # NoTimer => timers[activeSummaryPolls[m]].live
    /\ \A t \in TimerIds :
          timers[t].live => activeSummaryPolls[timers[t].meetingId] = t

\* A timer is cleared only while its own meeting's entry changes: no step
\* that leaves the entry of a meeting alone clears the timer of that meeting.
ClearsOwnTimerOnly ==
    \A t \in TimerIds :
        (timers[t].live /\ ~timers'[t].live) =>
            activeSummaryPolls'[timers[t].meetingId] # activeSummaryPolls[timers[t].meetingId]

\* C27: a meeting id is in activeSummaryPolls exactly when its timer is live,
\* and starting, stopping or finishing the poll of one meeting (and the
\* render and effect cleanup that follow) never clears the timer of another.
C27_PollsIndependent == []RegistryMatchesTimers /\ [][ClearsOwnTimerOnly]_vars

\* The last recoverMeeting call saved the meeting and its cleanup_checkpoints
\* call failed.
CleanupFailed == JustRecovered /\ rcLast.saved /\ rcLast.cleanupCalled /\ ~rcLast.cleanupOk

\* C12: when cleanup_checkpoints fails after a successful save, recoverMeeting
\* does not throw: it returns success with the saved meeting's id and the
\* meeting is no longer in recoverableMeetings.
C12_CleanupFailureNotFatal ==
    CleanupFailed =>
        /\ ~rcLast.threw
        /\ rcLast.returned.success
        /\ rcLast.returned.meetingId = SavedMeetingId(rcLast.id)
        /\ ~Listed(rcLast.id)

\* C12 happens: a listed meeting was recovered although the cleanup failed.
C12_Witness ==
    /\ CleanupFailed
    /\ rcLast.wasListed /\ ~Listed(rcLast.id)
    /\ rcLast.returned.success

\* The last recoverMeeting call found the metadata and transcripts, so its
\* audio step (steps 3 and 4) has run.
AudioStepRan == JustRecovered /\ rcLast.metadataFound /\ rcLast.hasTranscripts

\* C13: whatever the audio step did, recoverMeeting goes on to saveMeeting
\* and succeeds when saveMeeting and markMeetingSaved do; the returned
\* audioRecoveryStatus is never null: 'failed' when
\* recover_audio_from_checkpoints threw, 'none' without a folder path, and
\* the backend's status ('success', 'partial', ...) otherwise.
C13_AudioOutcomeNotFatal ==
    AudioStepRan =>
        /\ rcLast.saveCalled
        /\ (rcLast.saved /\ rcLast.marked) => ~rcLast.threw
        /\ ~rcLast.threw =>
              /\ rcLast.returned.success
              /\ rcLast.returned.audioRecoveryStatus # "null"
              /\ ~rcLast.folder => rcLast.returned.audioRecoveryStatus = "none"
              /\ (rcLast.folder /\ rcLast.audioAnswer = "throws") =>
                     rcLast.returned.audioRecoveryStatus = "failed"
              /\ (rcLast.folder /\ rcLast.audioAnswer # "throws") =>
                     rcLast.returned.audioRecoveryStatus = rcLast.audioAnswer

\* C13 happens: a recovery succeeded although the audio reconstruction threw.
C13_Witness ==
    /\ AudioStepRan /\ ~rcLast.threw
    /\ rcLast.folder /\ rcLast.audioAnswer = "throws"
    /\ rcLast.returned.audioRecoveryStatus = "failed"
    /\ rcLast.saved

\* A recovery that reports the backend's 'partial' status.
C13_PartialReached ==
    /\ AudioStepRan /\ ~rcLast.threw
    /\ rcLast.returned.audioRecoveryStatus = "partial"

\* Checkpoint i passes the age and marker filters of the last scan.
PassesFilters(i) ==
    /\ idbMeetings[i].present /\ i \notin markedSaved
    /\ KeepMeeting([meetingId |-> i, lastUpdated |-> idbMeetings[i].lastUpdated,
                    folderPath |-> idbMeetings[i].folderPath],
                   rcNow, rcLast.savedId, rcLast.stoppedKey, rcLast.stoppedTs)

\* The folderPath of the entry of meeting i in recoverableMeetings.
ListedFolder(i) ==
    \E k \in 1..Len(recoverableMeetings) :
        recoverableMeetings[k].meetingId = i /\ recoverableMeetings[k].folderPath

\* has_audio_checkpoints returned true for the folder of meeting i.
HasAudio(i) ==
    /\ idbMeetings[i].folderPath
    /\ i \in DOMAIN rcLast.audio /\ rcLast.audio[i] = "yes"

\* C14: after a scan, every checkpoint that passes the age and marker
\* filters is listed, with or without audio, and no other is; a listed entry
\* carries its folderPath exactly when has_audio_checkpoints returned true
\* for it (not when it returned false, threw, or there was no folder path).
C14_AudioCheckDropsNone ==
    JustChecked =>
        \A i \in CkIds :
            /\ Listed(i) <=> PassesFilters(i)
            /\ Listed(i) => (ListedFolder(i) <=> HasAudio(i))

\* C14 happens: one scan lists a session with audio, and one whose audio
\* check failed or found nothing, without its folder path.
C14_Witness ==
    /\ JustChecked
    /\ \E i \in CkIds : Listed(i) /\ ListedFolder(i)
    /\ \E i \in CkIds :
          /\ Listed(i) /\ ~ListedFolder(i) /\ idbMeetings[i].folderPath
          /\ rcLast.audio[i] \in {"no", "throws"}

(***************************************************************************)
(* useImportAudio                                                          *)
(***************************************************************************)
NoProgress == 0     \* progress is null

NoCommand == "none"

NoStep == [op |-> "none", ok |-> TRUE, afterCancel |-> FALSE,
           statusBefore |-> "idle", progressBefore |-> NoProgress]

\* What a step of the hook was, with the status and progress it found.
ImStep(op, ok) ==
    [op |-> op, ok |-> ok, afterCancel |-> importCancelled,
     statusBefore |-> importStatus, progressBefore |-> importProgress]

\* The dialog has opened: reset() has run and the listeners are registered.
ImInit ==
    /\ importStatus = "idle"
    /\ fileInfo = FALSE
    /\ importProgress = NoProgress
    /\ importError = FALSE
    /\ importCall = NoCommand
    /\ eventsLeft = 0
    /\ importCancelled = FALSE
    /\ navigated = FALSE
    /\ imLast = NoStep

\* The import dialog is not mounted: nothing moves.
ImIdle == ImInit

\* selectFile / validateFile up to the await of the command.
ValidateBegin(command) ==
    /\ importCall = NoCommand
    /\ importCall' = command
    /\ importStatus' = "validating"
    /\ importError' = FALSE
    /\ imLast' = ImStep(command, TRUE)
    /\ UNCHANGED <<fileInfo, importProgress, eventsLeft, importCancelled, navigated>>
    /\ UNCHANGED notIm

\* The validation command answers: "info" = a file description, "null" = the
\* user closed the file dialog (selectFile only), "throws" = it rejected.
ValidateReturns(answer) ==
    /\ importCall \in {"select", "validate"}
    /\ answer = "null" => importCall = "select"
    /\ importCall' = NoCommand
    /\ fileInfo' = (fileInfo \/ answer = "info")
    /\ importStatus' = IF answer = "throws" THEN "error" ELSE "idle"
    /\ importError' = (importError \/ answer = "throws")
    /\ imLast' = ImStep("validated", answer # "throws")
    /\ UNCHANGED <<importProgress, eventsLeft, importCancelled, navigated>>
    /\ UNCHANGED notIm

\* startImport up to the await of start_import_audio_command; the dialog
\* calls it only with a validated file.
StartImport ==
    /\ fileInfo
    /\ importCall = NoCommand
    /\ importCall' = "start"
    /\ importStatus' = "processing"
    /\ importError' = FALSE
    /\ importProgress' = NoProgress
    /\ importCancelled' = FALSE
    /\ navigated' = FALSE
    /\ eventsLeft' = 0
    /\ imLast' = ImStep("start", TRUE)
    /\ UNCHANGED fileInfo
    /\ UNCHANGED notIm

\* start_import_audio_command answers: the import runs and will emit events,
\* or the command rejected (the catch block).
StartImportReturns(ok) ==
    /\ importCall = "start"
    /\ importCall' = NoCommand
    /\ eventsLeft' = IF ok THEN MaxEvents ELSE 0
    /\ importStatus' = IF ok THEN importStatus ELSE "error"
    /\ importError' = (importError \/ ~ok)
    /\ imLast' = ImStep("started", ok)
    /\ UNCHANGED <<fileInfo, importProgress, importCancelled, navigated>>
    /\ UNCHANGED notIm

\* cancelImport; ok = cancel_import_command resolved.
CancelImport(ok) ==
    /\ importStatus' = IF ok THEN "idle" ELSE importStatus
    /\ importProgress' = IF ok THEN NoProgress ELSE importProgress
    /\ importCancelled' = (importCancelled \/ ok)
    /\ imLast' = ImStep("cancel", ok)
    /\ UNCHANGED <<fileInfo, importError, importCall, eventsLeft, navigated>>
    /\ UNCHANGED notIm

\* reset()
Reset ==
    /\ importStatus' = "idle"
    /\ fileInfo' = FALSE
    /\ importProgress' = NoProgress
    /\ importError' = FALSE
    /\ imLast' = ImStep("reset", TRUE)
    /\ UNCHANGED <<importCall, eventsLeft, importCancelled, navigated>>
    /\ UNCHANGED notIm

\* The 'import-progress' listener runs with payload p.
OnImportProgress(p) ==
    /\ eventsLeft > 0
    /\ eventsLeft' = eventsLeft - 1
    /\ importProgress' = p
    /\ importStatus' = "processing"
    /\ imLast' = ImStep("import-progress", TRUE)
    /\ UNCHANGED <<fileInfo, importError, importCall, importCancelled, navigated>>
    /\ UNCHANGED notIm

\* The 'import-complete' listener runs: onComplete schedules the navigation
\* to the created meeting. It is the import's last event.
OnImportComplete ==
    /\ eventsLeft > 0
    /\ eventsLeft' = 0
    /\ importStatus' = "complete"
    /\ importProgress' = NoProgress
    /\ navigated' = TRUE
    /\ imLast' = ImStep("import-complete", TRUE)
    /\ UNCHANGED <<fileInfo, importError, importCall, importCancelled>>
    /\ UNCHANGED notIm

\* The 'import-error' listener runs. It is the import's last event.
OnImportError ==
    /\ eventsLeft > 0
    /\ eventsLeft' = 0
    /\ importStatus' = "error"
    /\ importError' = TRUE
    /\ imLast' = ImStep("import-error", TRUE)
    /\ UNCHANGED <<fileInfo, importProgress, importCall, importCancelled, navigated>>
    /\ UNCHANGED notIm

ImNext ==
    \/ \E command \in {"select", "validate"} : ValidateBegin(command)
    \/ \E answer \in {"info", "null", "throws"} : ValidateReturns(answer)
    \/ StartImport
    \/ \E ok \in BOOLEAN : StartImportReturns(ok)
    \/ \E ok \in BOOLEAN : CancelImport(ok)
    \/ Reset
    \/ \E p \in 1..MaxPercent : OnImportProgress(p)
    \/ OnImportComplete
    \/ OnImportError

(***************************************************************************)
(* Properties of useImportAudio                                            *)
(***************************************************************************)
\* The last step was an import event delivered after a successful
\* cancelImport, with no startImport in between.
EventAfterCancel ==
    /\ imLast.op \in {"import-progress", "import-complete", "import-error"}
    /\ imLast.afterCancel

\* C15: a successful cancelImport leaves status 'idle' and progress null, and
\* no import-progress, import-complete or import-error event that arrives
\* before the next startImport changes that or navigates to a created
\* meeting; a failed cancel command leaves status and progress as they were.
C15_CancelIsFinal ==
    /\ (imLast.op = "cancel" /\ imLast.ok) =>
           (importStatus = "idle" /\ importProgress = NoProgress)
    /\ (imLast.op = "cancel" /\ ~imLast.ok) =>
           (importStatus = imLast.statusBefore /\ importProgress = imLast.progressBefore)
    /\ EventAfterCancel =>
           (importStatus = "idle" /\ importProgress = NoProgress /\ ~navigated)

(***************************************************************************)
(* usePaginatedTranscripts over a fixed store: two full pages and a part   *)
(* of a third (total_count = 250 with page size 100 in the source's        *)
(* numbers).                                                               *)
(***************************************************************************)
TotalSegments == 2 * DEFAULT_PAGE_SIZE + DEFAULT_PAGE_SIZE \div 2

Min(a, b) == IF a < b THEN a ELSE b

\* The audio_start_time values a stored segment may have.
StartTimes == {Undefined, 0, 1}

\* The database holds TotalSegments segments with ids 1..TotalSegments, in
\* the order of their ids, with any start times.
DbLoadAll ==
    dbTranscripts \in
        {[i \in 1..TotalSegments |-> [id |-> i, audio_start_time |-> start[i]]] :
            start \in [1..TotalSegments -> StartTimes]}

\* get_meeting_transcripts(meeting_id, limit, offset): the stored segments
\* from `offset` on, at most `limit` of them, with total_count and has_more.
GetMeetingTranscripts(limit, offset) ==
    LET from == Min(offset, Len(dbTranscripts))
        to == Min(offset + limit, Len(dbTranscripts))
    IN  [transcripts |-> SubSeq(dbTranscripts, from + 1, to),
         total_count |-> Len(dbTranscripts),
         has_more |-> to < Len(dbTranscripts)]

\* api_get_meeting_transcripts answers the initial request from the store.
InitialPageArrives ==
    LET response == GetMeetingTranscripts(DEFAULT_PAGE_SIZE, pgRequest.offset)
    IN  InitialLoadAnswer(response.transcripts, response.has_more, response.total_count)

\* api_get_meeting_transcripts answers a loadMore request from the store.
NextPageArrives ==
    LET response == GetMeetingTranscripts(DEFAULT_PAGE_SIZE, pgRequest.offset)
    IN  LoadMoreAnswer(response.transcripts, response.has_more, response.total_count)

LoadAllNext ==
    \/ InitialPageArrives
    \/ InitialLoadFail
    \/ LoadMoreCall
    \/ NextPageArrives
    \/ LoadMoreFail
    \/ PgClock

\* The ids in the list, as a set.
LoadedIds == {transcripts[i].id : i \in 1..Len(transcripts)}

\* A page answer has arrived (total_count has been stored).
SomePageLoaded == totalCount # 0

\* Every stored segment is loaded and nothing is in flight.
AllLoaded == SomePageLoaded /\ ~hasMore /\ pgRequest.kind = "none"

\* C16: with two and a half pages of segments stored, page requests are made
\* at offsets 0, one page and two pages, each at the number of segments
\* loaded so far; each answer adds a full page, the last one the remaining
\* half; at the end loadedCount = totalCount = the number stored, hasMore is
\* false, each segment is in the list once in sorted position, and loadMore
\* issues no further request.
C16_LoadsAllInPages ==
    /\ pgRequest.kind = "initial" => (pgRequest.offset = 0 /\ transcripts = <<>>)
    /\ pgRequest.kind = "more" =>
          /\ pgRequest.offset = Len(transcripts)
          /\ pgRequest.offset \in {DEFAULT_PAGE_SIZE, 2 * DEFAULT_PAGE_SIZE}
    /\ SomePageLoaded =>
          /\ totalCount = TotalSegments
          /\ Len(transcripts) \in {DEFAULT_PAGE_SIZE, 2 * DEFAULT_PAGE_SIZE, TotalSegments}
          /\ LoadedIds = 1..Len(transcripts)
          /\ NoDuplicateIds(transcripts)
          /\ hasMore <=> Len(transcripts) < TotalSegments
    /\ AllLoaded =>
          /\ Len(transcripts) = totalCount /\ totalCount = TotalSegments
          /\ IsSortedByStart(transcripts)
          /\ ~ENABLED LoadMoreCall

\* C16 happens: the third answer brought the last half page.
C16_Witness ==
    /\ AllLoaded
    /\ offsetRef = TotalSegments
    /\ Len(transcripts) = 2 * DEFAULT_PAGE_SIZE + DEFAULT_PAGE_SIZE \div 2
    /\ lastLoadTimeRef > 1000

(***************************************************************************)
(* handleGenerateSummary: fetchAllTranscripts, the model checks and the    *)
(* call of processSummary.                                                 *)
(***************************************************************************)
Providers == {"ollama", "builtin-ai", "claude"}

\* modelConfig: the provider, and whether modelConfig.model is set.
ModelConfigs ==
    {c \in [provider : Providers, model : BOOLEAN] :
        c.provider # "builtin-ai" => c.model}

NoGenCall == [pc |-> "none", limit |-> 0, allTranscripts |-> <<>>]

\* How a step of the call ended: what it did, the check that decided it,
\* how fetchAllTranscripts' read went in it, and for a call of processSummary
\* the transcripts handed over and whether their text was blank.
NoGenStep == [op |-> "none", check |-> "none", text |-> <<>>, fetch |-> "none",
              blank |-> FALSE]

GenInit ==
    /\ modelConfig \in ModelConfigs
    /\ genCall = NoGenCall
    /\ genCount = 0
    /\ genLast = NoGenStep

\* The Generate button is never pressed: nothing moves.
GenIdle ==
    /\ modelConfig = [provider |-> "claude", model |-> TRUE]
    /\ genCall = NoGenCall
    /\ genCount = 0
    /\ genLast = NoGenStep

\* A stored segment: its id and its audio_start_time.
StoredSegment(i, start) == [id |-> i, audio_start_time |-> start]

\* The meeting holds no segment or one when its page opens.
DbGenerate ==
    dbTranscripts \in {<<>>} \cup {<<StoredSegment(1, start)>> : start \in {Undefined, 1}}

\* A segment is added to the meeting.
SegmentStored(start) ==
    /\ Len(dbTranscripts) < MaxStored
    /\ dbTranscripts' = Append(dbTranscripts, StoredSegment(Len(dbTranscripts) + 1, start))
    /\ genLast' = NoGenStep
    /\ UNCHANGED <<modelConfig, genCall, genCount, smVars, notGen>>

\* Whether fullTranscript.trim() may be empty: a line is "<time> <text>", and
\* the time is "[MM:SS]" unless the segment has no audio_start_time.
MayBeBlank(allTranscripts) ==
    \A i \in 1..Len(allTranscripts) : allTranscripts[i].audio_start_time = Undefined

\* A handleGenerateSummary without the check of allTranscripts.length.
AfterFetchUnchecked(config, allTranscripts) ==
    IF config.provider = "ollama" THEN [next |-> "ollama", check |-> "none"]
    ELSE IF config.provider = "builtin-ai"
    THEN (IF ~config.model THEN [next |-> "prompt", check |-> "no-model-selected"]
          ELSE [next |-> "ready", check |-> "none"])
    ELSE [next |-> "submit", check |-> "none"]

\* What the call does after fetchAllTranscripts returned `allTranscripts`:
\* "prompt" = toast and return, "submit" = go on to processSummary, anything
\* else = the command it awaits next.
AfterFetch(config, allTranscripts) ==
    IF allTranscripts = <<>> THEN [next |-> "prompt", check |-> "no-transcripts"]
    ELSE IF config.provider = "ollama" THEN [next |-> "ollama", check |-> "none"]
    ELSE IF config.provider = "builtin-ai"
    THEN (IF ~config.model THEN [next |-> "prompt", check |-> "no-model-selected"]
          ELSE [next |-> "ready", check |-> "none"])
    ELSE [next |-> "submit", check |-> "none"]

\* An Ollama check that goes on when get_ollama_models throws.
AfterOllamaModelsLenient(answer) ==
    IF answer = "no-models" THEN [next |-> "prompt", check |-> "ollama-no-models"]
    ELSE [next |-> "submit", check |-> IF answer = "throws" THEN "ollama-unreachable" ELSE "ollama-models"]

\* After get_ollama_models: "models" = a non-empty list.
AfterOllamaModels(answer) ==
    IF answer = "models" THEN [next |-> "submit", check |-> "ollama-models"]
    ELSE IF answer = "no-models" THEN [next |-> "prompt", check |-> "ollama-no-models"]
    ELSE [next |-> "prompt", check |-> "ollama-unreachable"]

\* After builtin_ai_is_model_ready.
AfterModelReady(answer) ==
    IF answer = "ready" THEN [next |-> "submit", check |-> "model-ready"]
    ELSE IF answer = "not-ready" THEN [next |-> "info", check |-> "none"]
    ELSE [next |-> "prompt", check |-> "validation-failed"]

\* What builtin_ai_get_model_info may tell about a model that is not ready.
ModelStatuses == {"downloading", "not_downloaded", "corrupted", "error", "null", "throws"}

\* After builtin_ai_get_model_info: every outcome ends the call with a toast.
AfterModelInfo(status) ==
    [next |-> "prompt",
     check |-> IF status = "throws" THEN "validation-failed"
               ELSE IF status = "null" THEN "not-prepared"
               ELSE status]

\* The call goes on as `decision` says, holding `allTranscripts`; `fetch`
\* tells how the read of this step went ("none" when the step made none).
Proceed(decision, allTranscripts, fetch) ==
    IF decision.next = "submit"
    THEN /\ \E blank \in {FALSE, MayBeBlank(allTranscripts)} :
                /\ ProcessSummaryCall(FALSE, blank)
                /\ genLast' = [op |-> "submitted", check |-> decision.check,
                               text |-> allTranscripts, fetch |-> fetch,
                               blank |-> blank]
         /\ genCall' = NoGenCall
    ELSE IF decision.next = "prompt"
    THEN /\ genCall' = NoGenCall
         /\ genLast' = [NoGenStep EXCEPT !.op = "prompt", !.check = decision.check,
                                         !.fetch = fetch]
         /\ UNCHANGED smVars
    ELSE /\ genCall' = [pc |-> decision.next, limit |-> 0,
                        allTranscripts |-> allTranscripts]
         /\ genLast' = [NoGenStep EXCEPT !.fetch = fetch]
         /\ UNCHANGED smVars

\* "ok" / "throws" for the outcome of a read.
Outcome(ok) == IF ok THEN "ok" ELSE "throws"

\* handleGenerateSummary up to its first await: the limit-1 read of
\* fetchAllTranscripts is in flight, unless the model config is loading.
HandleGenerateSummaryCall(isModelConfigLoading) ==
    /\ genCall.pc = "none"
    /\ genCount < MaxRuns
    /\ genCount' = genCount + 1
    /\ IF isModelConfigLoading
       THEN /\ genCall' = NoGenCall
            /\ genLast' = [NoGenStep EXCEPT !.op = "prompt", !.check = "config-loading"]
       ELSE /\ genCall' = [NoGenCall EXCEPT !.pc = "count"]
            /\ genLast' = NoGenStep
    /\ UNCHANGED <<modelConfig, dbVars, smVars, notGen>>

\* The limit-1 read answers (or throws): total_count becomes the limit of
\* the second read; 0 and a failure end fetchAllTranscripts with [].
FetchCountAnswers(ok) ==
    /\ genCall.pc = "count"
    /\ LET firstPage == GetMeetingTranscripts(1, 0)
       IN  IF ok /\ firstPage.total_count # 0
           THEN /\ genCall' = [genCall EXCEPT !.pc = "read",
                                              !.limit = firstPage.total_count]
                /\ genLast' = [NoGenStep EXCEPT !.fetch = "ok"]
                /\ UNCHANGED smVars
           ELSE Proceed(AfterFetch(modelConfig, <<>>), <<>>, Outcome(ok))
    /\ UNCHANGED <<modelConfig, genCount, dbVars, notGen>>

\* The second read answers (or throws) and handleGenerateSummary goes on to
\* its next await, or to processSummary.
FetchAllAnswers(ok) ==
    /\ genCall.pc = "read"
    /\ LET allData == GetMeetingTranscripts(genCall.limit, 0)
           allTranscripts == IF ok THEN allData.transcripts ELSE <<>>
       IN  Proceed(AfterFetch(modelConfig, allTranscripts), allTranscripts, Outcome(ok))
    /\ UNCHANGED <<modelConfig, genCount, dbVars, notGen>>

\* get_ollama_models answers.
OllamaModelsAnswer(answer) ==
    /\ genCall.pc = "ollama"
    /\ Proceed(AfterOllamaModels(answer), genCall.allTranscripts, "none")
    /\ UNCHANGED <<modelConfig, genCount, dbVars, notGen>>

\* builtin_ai_is_model_ready answers.
ModelReadyAnswers(answer) ==
    /\ genCall.pc = "ready"
    /\ Proceed(AfterModelReady(answer), genCall.allTranscripts, "none")
    /\ UNCHANGED <<modelConfig, genCount, dbVars, notGen>>

\* builtin_ai_get_model_info answers.
ModelInfoAnswers(status) ==
    /\ genCall.pc = "info"
    /\ Proceed(AfterModelInfo(status), genCall.allTranscripts, "none")
    /\ UNCHANGED <<modelConfig, genCount, dbVars, notGen>>

GenerateNext ==
    \/ \E loading \in BOOLEAN : HandleGenerateSummaryCall(loading)
    \/ \E ok \in BOOLEAN : FetchCountAnswers(ok)
    \/ \E ok \in BOOLEAN : FetchAllAnswers(ok)
    \/ \E answer \in {"models", "no-models", "throws"} : OllamaModelsAnswer(answer)
    \/ \E answer \in {"ready", "not-ready", "throws"} : ModelReadyAnswers(answer)
    \/ \E status \in ModelStatuses : ModelInfoAnswers(status)
    \/ \E start \in {Undefined, 1} : SegmentStored(start)
    \/ \E i \in 1..Len(pendingRuns) : ProcessTranscriptReturns(i)
    \/ \E i \in 1..Len(pendingRuns) : ProcessTranscriptFails(i)

(***************************************************************************)
(* Properties of handleGenerateSummary                                     *)
(***************************************************************************)
\* The findings that mean the selected model is not ready.
NotReadyChecks ==
    {"no-model-selected", "not_downloaded", "downloading", "corrupted", "error",
     "ollama-no-models", "ollama-unreachable"}

\* A step in which the running handleGenerateSummary call learns that the
\* model is not ready.
FindsModelNotReady == genCall.pc # "none" /\ genLast'.check \in NotReadyChecks

NotReadyOnlyPrompts ==
    FindsModelNotReady =>
        /\ genLast'.op = "prompt"
        /\ runCount' = runCount /\ pendingRuns' = pendingRuns
        /\ summaryStatus' = summaryStatus /\ summaryError' = summaryError
        /\ genCall'.pc = "none"

\* C17: when handleGenerateSummary finds the selected model not ready
\* (builtin-ai without a selected model or with status not_downloaded,
\* downloading, corrupted or error; ollama without models or unreachable),
\* it returns after a toast: processSummary and api_process_transcript are
\* not called and summaryStatus and summaryError stay as they were.
C17_NotReadyOnlyPrompts == [][NotReadyOnlyPrompts]_vars

\* C17 happens: an unreachable Ollama ended a call that had fetched the
\* transcripts; nothing was submitted.
C17_Witness ==
    /\ genLast.op = "prompt" /\ genLast.check = "ollama-unreachable"
    /\ genCount > 0 /\ runCount = 0
    /\ summaryStatus = "idle" /\ summaryError = NoError
    /\ dbTranscripts # <<>>

\* The ids of the segments in a transcript list.
IdsIn(list) == {list[i].id : i \in 1..Len(list)}

\* C18: the transcript text handleGenerateSummary hands to processSummary
\* (and so to api_process_transcript) holds every segment stored for the
\* meeting at that moment, also when segments were added between the limit-1
\* read and the full read of fetchAllTranscripts.
C18_SubmitsEveryStoredSegment ==
    genLast.op = "submitted" => IdsIn(genLast.text) = IdsIn(dbTranscripts)

\* api_process_transcript is invoked only by a processSummary call that was
\* handed the text of at least one stored segment, and not a blank one; a
\* fetchAllTranscripts that found nothing or failed ends the call with a
\* toast; processSummary with blank text ends in 'error' with no call made
\* and no poll started.
NoJobWithoutText ==
    /\ Len(pendingRuns') > Len(pendingRuns) =>
          /\ genLast'.op = "submitted" /\ ~genLast'.blank
          /\ genLast'.text # <<>> /\ dbTranscripts # <<>>
    /\ (/\ genCall.pc # "none"
        /\ genLast'.fetch = "throws" \/ (genLast'.fetch = "ok" /\ dbTranscripts = <<>>)) =>
          /\ genLast'.op = "prompt" /\ genLast'.check = "no-transcripts"
          /\ genCall'.pc = "none"
          /\ runCount' = runCount /\ pendingRuns' = pendingRuns
          /\ summaryStatus' = summaryStatus /\ summaryError' = summaryError
    /\ (genCall.pc # "none" /\ genLast'.op = "submitted" /\ genLast'.blank) =>
          /\ summaryStatus' = "error" /\ summaryError' = ErrBlank
          /\ pendingRuns' = pendingRuns
          /\ timers' = timers /\ activeSummaryPolls' = activeSummaryPolls

\* C29: no summary job is started without transcript text:
\* handleGenerateSummary returns without calling api_process_transcript when
\* the meeting has no stored transcripts or the fetch fails, and
\* processSummary with blank text sets summaryStatus to 'error' without
\* calling api_process_transcript or starting a poll.
C29_NoJobWithoutText == [][NoJobWithoutText]_vars

\* C29 happens: the meeting has segments, the read of fetchAllTranscripts
\* failed and the call ended with nothing submitted.
C29_Witness ==
    /\ genLast.fetch = "throws" /\ genLast.op = "prompt"
    /\ dbTranscripts # <<>>
    /\ genCount > 0 /\ runCount = 0 /\ pendingRuns = <<>>
    /\ summaryStatus = "idle"

\* The last call was a deleteRecoverableMeeting or a recoverMeeting that
\* succeeded.
RemovalSucceeded == rcLast.op \in {"delete", "recover"} /\ ~rcLast.threw

\* The entries of the list before the call other than the one of meeting id,
\* in their order.
OthersBefore(id) ==
    LET keep == {k \in 1..Len(rcLast.listBefore) : rcLast.listBefore[k].meetingId # id}
        \* the position in listBefore of the n-th kept entry
        nth[n \in 1..Cardinality(keep)] ==
            CHOOSE k \in keep : Cardinality({j \in keep : j <= k}) = n
    IN  [n \in 1..Cardinality(keep) |-> rcLast.listBefore[nth[n]]]

\* C19: after a successful deleteRecoverableMeeting(id) or recoverMeeting(id)
\* the id is not in recoverableMeetings and the other entries are as before;
\* a failed delete rethrows and leaves recoverableMeetings as it was.
C19_RemovesOnlyThatMeeting ==
    /\ RemovalSucceeded =>
          /\ ~Listed(rcLast.id)
          /\ recoverableMeetings = OthersBefore(rcLast.id)
    /\ (rcLast.op = "delete" /\ rcLast.threw) =>
          recoverableMeetings = rcLast.listBefore

\* C19 happens: a delete took one of two listed meetings out of the list.
C19_Witness ==
    /\ rcLast.op = "delete" /\ ~rcLast.threw
    /\ Len(rcLast.listBefore) = 2
    /\ Len(recoverableMeetings) = 1 /\ ~Listed(rcLast.id)

(***************************************************************************)
(* recoverMeeting: loadMeetingTranscripts and formattedTranscripts         *)
(***************************************************************************)
Missing == -1       \* a StoredTranscript without sequenceId

\* A StoredTranscript: its IndexedDB key and its sequenceId.
StoredTranscript(key, sequenceId) == [id |-> key, sequenceId |-> sequenceId]

SequenceIds == {Missing} \cup 0..MaxSequenceId

\* The lists IndexedDB may hold for a meeting: keys in increasing order, any
\* mix of missing, zero and positive sequence ids, no positive id twice.
StoredLists ==
    UNION {
        {[k \in 1..n |-> StoredTranscript(k, ids[k])] :
            ids \in {f \in [1..n -> SequenceIds] :
                        \A i, j \in 1..n : (i # j /\ f[i] > 0) => f[i] # f[j]}}
        : n \in 0..MaxTranscripts }

FmInit ==
    /\ idbTranscripts \in StoredLists
    /\ formattedTranscripts = <<>>

\* No meeting is being recovered: nothing moves.
FmIdle ==
    /\ idbTranscripts = <<>>
    /\ formattedTranscripts = <<>>

\* (x || fallback) for a sequenceId: missing and 0 are falsy.
OrElse(sequenceId, fallback) ==
    IF sequenceId = Missing \/ sequenceId = 0 THEN fallback ELSE sequenceId

RECURSIVE InsertBySequence(_, _)
\* One step of the stable sort with comparator
\* (a.sequenceId || 0) - (b.sequenceId || 0).
InsertBySequence(s, t) ==
    IF s = <<>> THEN <<t>>
    ELSE IF OrElse(Head(s).sequenceId, 0) - OrElse(t.sequenceId, 0) <= 0
         THEN <<Head(s)>> \o InsertBySequence(Tail(s), t)
         ELSE <<t>> \o s

RECURSIVE SortBySequence(_)
SortBySequence(s) ==
    IF s = <<>> THEN <<>>
    ELSE InsertBySequence(SortBySequence(SubSeq(s, 1, Len(s) - 1)), s[Len(s)])

\* loadMeetingTranscripts: getTranscripts, sorted by sequence id.
LoadMeetingTranscripts(list) == SortBySequence(list)

\* formattedTranscripts: sequence_id is t.sequenceId || index, with the
\* index counted from 0.
FormatTranscripts(list) ==
    [k \in 1..Len(list) |->
        [id |-> list[k].id, sequence_id |-> OrElse(list[k].sequenceId, k - 1)]]

\* Steps 2 and 5 of recoverMeeting: the transcripts are loaded and
\* converted for saveMeeting. An empty list makes recoverMeeting throw.
FormatForSave ==
    /\ formattedTranscripts = <<>>
    /\ Len(idbTranscripts) > 0
    /\ formattedTranscripts' = FormatTranscripts(LoadMeetingTranscripts(idbTranscripts))
    /\ UNCHANGED idbTranscripts
    /\ UNCHANGED notFm

FmNext == FormatForSave

\* C20: the segments recoverMeeting passes to saveMeeting have strictly
\* increasing sequence_id values (so none is shared), whatever mix of
\* missing, zero and positive sequenceIds is stored.
C20_SequenceIdsIncrease ==
    \A i \in 1..(Len(formattedTranscripts) - 1) :
        formattedTranscripts[i].sequence_id < formattedTranscripts[i + 1].sequence_id

(***************************************************************************)
(* ModelManager (WhisperModelManager.tsx): the status of each model, the   *)
(* download event listeners, downloadModel, cancelDownload, deleteModel.   *)
(***************************************************************************)
ModelNames == {"small", "large-v3"}

\* The model the user's clicks and the backend's events are about; the other
\* one is an entry of the list that nobody touches.
Operated == {"small"}

\* A ModelStatus: 'Available', 'Missing', {Downloading: progress},
\* {Error: message}, {Corrupted: ...}; progress is 0 unless Downloading.
Status(kind) == [kind |-> kind, progress |-> 0]

Downloading(progress) == [kind |-> "Downloading", progress |-> progress]

\* The progress payloads of 'model-download-progress' events.
ProgressPayloads == {2, 4, 10}

\* The statuses WhisperAPI.getAvailableModels may report.
ReportedStatuses ==
    {Status(k) : k \in {"Available", "Missing", "Error", "Corrupted"}}
    \cup {Downloading(0)}

\* The lists WhisperAPI.getAvailableModels may return: the status of each model.
ModelLists == [ModelNames -> ReportedStatuses]

\* The list initializeModels shows: what the backend finds on disk.
ListsAtOpen == [ModelNames -> {Status("Available"), Status("Missing"), Status("Corrupted")}]

THROTTLE_MS == 300
MIN_PROGRESS_JUMP == 5
MmClockStep == 200

\* progressThrottleRef.current.get(modelName) is undefined
NoThrottle == [progress |-> 0, timestamp |-> 0, present |-> FALSE]

Throttle(progress, timestamp) ==
    [progress |-> progress, timestamp |-> timestamp, present |-> TRUE]

Abs(x) == IF x < 0 THEN 0 - x ELSE x

\* shouldUpdate of the progress listener.
ShouldUpdate(throttleData, progress, now) ==
    \/ ~throttleData.present
    \/ now - throttleData.timestamp > THROTTLE_MS
    \/ Abs(progress - throttleData.progress) >= MIN_PROGRESS_JUMP

\* An updater that gives every model of the list the new status.
SetStatusOfAll(prevModels, modelName, status) ==
    [n \in DOMAIN prevModels |-> status]

\* prevModels.map(model => model.name === modelName ? {...model, status} : model)
SetStatus(prevModels, modelName, status) ==
    [n \in DOMAIN prevModels |-> IF n = modelName THEN status ELSE prevModels[n]]

\* mmPending: the models whose WhisperAPI.downloadModel call is awaited, and
\* the cancelDownload or deleteModel call under way (one at a time).
NoApiCall == [op |-> "none", name |-> "none"]

NoPending == [download |-> {}, call |-> NoApiCall]

Awaiting(op, modelName) == [op |-> op, name |-> modelName]

NoList == <<>>

NoMmStep == [op |-> "none", name |-> "none", progress |-> 0, list |-> NoList]

MmStep(op, name, progress) == [NoMmStep EXCEPT !.op = op, !.name = name, !.progress = progress]

\* initializeModels has finished: the list is the backend's, no download was
\* started from this component, no call is awaited.
MmInit ==
    /\ models \in ListsAtOpen
    /\ downloadingModels = {}
    /\ progressThrottleRef = [n \in ModelNames |-> NoThrottle]
    /\ mmPending = NoPending
    /\ mmNow = 1000
    /\ mmLast = NoMmStep
    /\ persistedDownloading = {}
    /\ mmStarted = {}
    /\ retryToasts = {}
    /\ mmRestarts = 0

\* The settings page is not open: nothing moves.
MmIdle ==
    /\ models = [n \in ModelNames |-> Status("Missing")]
    /\ downloadingModels = {}
    /\ progressThrottleRef = [n \in ModelNames |-> NoThrottle]
    /\ mmPending = NoPending
    /\ mmNow = 1000
    /\ mmLast = NoMmStep
    /\ persistedDownloading = {}
    /\ mmStarted = {}
    /\ retryToasts = {}
    /\ mmRestarts = 0

\* downloadModel(modelName) up to its await of WhisperAPI.downloadModel;
\* updateDownloadingModels writes the new set to localStorage.
DownloadModel(modelName) ==
    /\ ~(modelName \in downloadingModels)
    /\ downloadingModels' = downloadingModels \cup {modelName}
    /\ models' = SetStatus(models, modelName, Downloading(0))
    /\ mmPending' = [mmPending EXCEPT !.download = @ \cup {modelName}]
    /\ persistedDownloading' = downloadingModels'
    /\ mmStarted' = mmStarted \cup {modelName}
    /\ mmLast' = MmStep("download", modelName, 0)
    /\ UNCHANGED <<progressThrottleRef, mmNow, retryToasts, mmRestarts, notMm>>

\* WhisperAPI.downloadModel resolves: downloadModel returns.
DownloadResolves(modelName) ==
    /\ modelName \in mmPending.download
    /\ mmPending' = [mmPending EXCEPT !.download = @ \ {modelName}]
    /\ mmLast' = MmStep("downloadResolved", modelName, 0)
    /\ UNCHANGED <<models, downloadingModels, progressThrottleRef, mmNow, mmStore, notMm>>

\* WhisperAPI.downloadModel rejects: the catch block of downloadModel.
DownloadRejects(modelName) ==
    /\ modelName \in mmPending.download
    /\ mmPending' = [mmPending EXCEPT !.download = @ \ {modelName}]
    /\ downloadingModels' = downloadingModels \ {modelName}
    /\ models' = SetStatus(models, modelName, Status("Error"))
    /\ persistedDownloading' = downloadingModels'
    /\ mmLast' = MmStep("downloadFailed", modelName, 0)
    /\ UNCHANGED <<progressThrottleRef, mmNow, mmStarted, retryToasts, mmRestarts, notMm>>

\* The 'model-download-progress' listener.
OnDownloadProgress(modelName, progress) ==
    /\ IF ShouldUpdate(progressThrottleRef[modelName], progress, mmNow)
       THEN /\ progressThrottleRef' =
                  [progressThrottleRef EXCEPT ![modelName] = Throttle(progress, mmNow)]
            /\ models' = SetStatus(models, modelName, Downloading(progress))
            /\ mmLast' = MmStep("progress", modelName, progress)
       ELSE /\ UNCHANGED <<progressThrottleRef, models>>
            /\ mmLast' = MmStep("progressThrottled", modelName, progress)
    /\ UNCHANGED <<downloadingModels, mmPending, mmNow, mmStore, notMm>>

\* The 'model-download-complete' listener; it calls setDownloadingModels,
\* which does not write localStorage.
OnDownloadComplete(modelName) ==
    /\ models' = SetStatus(models, modelName, Status("Available"))
    /\ downloadingModels' = downloadingModels \ {modelName}
    /\ progressThrottleRef' = [progressThrottleRef EXCEPT ![modelName] = NoThrottle]
    /\ mmLast' = MmStep("complete", modelName, 0)
    /\ UNCHANGED <<mmPending, mmNow, mmStore, notMm>>

\* The 'model-download-error' listener; it calls setDownloadingModels, which
\* does not write localStorage, and shows a toast with a retry action.
OnDownloadError(modelName) ==
    /\ models' = SetStatus(models, modelName, Status("Error"))
    /\ downloadingModels' = downloadingModels \ {modelName}
    /\ progressThrottleRef' = [progressThrottleRef EXCEPT ![modelName] = NoThrottle]
    /\ retryToasts' = retryToasts \cup {modelName}
    /\ mmLast' = MmStep("error", modelName, 0)
    /\ UNCHANGED <<mmPending, mmNow, persistedDownloading, mmStarted, mmRestarts, notMm>>

\* cancelDownload(modelName) up to its await of WhisperAPI.cancelDownload.
CancelDownload(modelName) ==
    /\ mmPending.call = NoApiCall
    /\ mmPending' = [mmPending EXCEPT !.call = Awaiting("cancelDownload", modelName)]
    /\ mmLast' = MmStep("cancel", modelName, 0)
    /\ UNCHANGED <<models, downloadingModels, progressThrottleRef, mmNow, mmStore, notMm>>

\* WhisperAPI.cancelDownload resolves.
CancelResolves(modelName) ==
    /\ mmPending.call = Awaiting("cancelDownload", modelName)
    /\ mmPending' = [mmPending EXCEPT !.call = NoApiCall]
    /\ downloadingModels' = downloadingModels \ {modelName}
    /\ models' = SetStatus(models, modelName, Status("Missing"))
    /\ progressThrottleRef' = [progressThrottleRef EXCEPT ![modelName] = NoThrottle]
    /\ persistedDownloading' = downloadingModels'
    /\ mmLast' = MmStep("cancelled", modelName, 0)
    /\ UNCHANGED <<mmNow, mmStarted, retryToasts, mmRestarts, notMm>>

\* WhisperAPI.cancelDownload rejects: the catch block shows a toast.
CancelRejects(modelName) ==
    /\ mmPending.call = Awaiting("cancelDownload", modelName)
    /\ mmPending' = [mmPending EXCEPT !.call = NoApiCall]
    /\ mmLast' = MmStep("cancelFailed", modelName, 0)
    /\ UNCHANGED <<models, downloadingModels, progressThrottleRef, mmNow, mmStore, notMm>>

\* deleteModel(modelName) up to its await of WhisperAPI.deleteCorruptedModel.
DeleteModel(modelName) ==
    /\ mmPending.call = NoApiCall
    /\ mmPending' = [mmPending EXCEPT !.call = Awaiting("deleteCorruptedModel", modelName)]
    /\ mmLast' = MmStep("delete", modelName, 0)
    /\ UNCHANGED <<models, downloadingModels, progressThrottleRef, mmNow, mmStore, notMm>>

\* deleteCorruptedModel resolves: getAvailableModels is awaited next.
DeleteResolves(modelName) ==
    /\ mmPending.call = Awaiting("deleteCorruptedModel", modelName)
    /\ mmPending' = [mmPending EXCEPT !.call = Awaiting("getAvailableModels", modelName)]
    /\ mmLast' = MmStep("deleteResolved", modelName, 0)
    /\ UNCHANGED <<models, downloadingModels, progressThrottleRef, mmNow, mmStore, notMm>>

\* deleteCorruptedModel or getAvailableModels rejects: the catch block.
DeleteRejects(modelName) ==
    /\ mmPending.call \in {Awaiting("deleteCorruptedModel", modelName),
                          Awaiting("getAvailableModels", modelName)}
    /\ mmPending' = [mmPending EXCEPT !.call = NoApiCall]
    /\ mmLast' = MmStep("deleteFailed", modelName, 0)
    /\ UNCHANGED <<models, downloadingModels, progressThrottleRef, mmNow, mmStore, notMm>>

\* getAvailableModels resolves with modelList: setModels(modelList).
ModelListArrives(modelName, modelList) ==
    /\ mmPending.call = Awaiting("getAvailableModels", modelName)
    /\ mmPending' = [mmPending EXCEPT !.call = NoApiCall]
    /\ models' = modelList
    /\ mmLast' = [MmStep("deleted", modelName, 0) EXCEPT !.list = modelList]
    /\ UNCHANGED <<downloadingModels, progressThrottleRef, mmNow, mmStore, notMm>>

\* Time passes between two events of the component.
MmClock ==
    /\ mmNow < 1000 + MaxMmClock * MmClockStep
    /\ mmNow' = mmNow + MmClockStep
    /\ mmLast' = NoMmStep
    /\ UNCHANGED <<models, downloadingModels, progressThrottleRef, mmPending, mmStore, notMm>>

MmNext ==
    \/ \E n \in Operated : DownloadModel(n)
    \/ \E n \in Operated : DownloadResolves(n)
    \/ \E n \in Operated : DownloadRejects(n)
    \/ \E n \in Operated, p \in ProgressPayloads : OnDownloadProgress(n, p)
    \/ \E n \in Operated : OnDownloadComplete(n)
    \/ \E n \in Operated : OnDownloadError(n)
    \/ \E n \in Operated : CancelDownload(n)
    \/ \E n \in Operated : CancelResolves(n)
    \/ \E n \in Operated : CancelRejects(n)
    \/ \E n \in Operated : DeleteModel(n)
    \/ \E n \in Operated : DeleteResolves(n)
    \/ \E n \in Operated : DeleteRejects(n)
    \/ \E n \in Operated, list \in ModelLists : ModelListArrives(n, list)
    \/ MmClock

(***************************************************************************)
(* Properties of ModelManager                                              *)
(***************************************************************************)
\* The status the step mmLast' gives to the model it names (for the steps
\* that give one).
StatusSetBy(step) ==
    IF step.op = "download" THEN Downloading(0)
    ELSE IF step.op = "progress" THEN Downloading(step.progress)
    ELSE IF step.op = "complete" THEN Status("Available")
    ELSE IF step.op \in {"error", "downloadFailed"} THEN Status("Error")
    ELSE Status("Missing")

SettingSteps == {"download", "progress", "complete", "error", "downloadFailed", "cancelled"}

ModelStatusStep ==
    /\ mmLast'.op \in SettingSteps =>
          /\ models'[mmLast'.name] = StatusSetBy(mmLast')
          /\ \A n \in ModelNames \ {mmLast'.name} : models'[n] = models[n]
    /\ mmLast'.op = "deleted" => models' = mmLast'.list
    /\ mmLast'.op \notin SettingSteps \cup {"deleted"} => models' = models
    /\ mmLast'.op = "cancelFailed" =>
          (models' = models /\ downloadingModels' = downloadingModels)

\* C21: a model's status changes only in these steps, and only for the model
\* the step names: downloadModel sets Downloading(0); a progress event that
\* passes the throttle sets Downloading(p); a complete event sets Available;
\* an error event or a failed download call sets Error; a successful cancel
\* sets Missing; a delete replaces the list by the one getAvailableModels
\* returned. A failed cancel leaves every status and the downloading set
\* unchanged.
C21_StatusChangesByStep == [][ModelStatusStep]_vars

\* C21 happens: a cancel failed while the download went on.
C21_Witness ==
    /\ mmLast.op = "cancelFailed"
    /\ models[mmLast.name].kind = "Downloading" /\ models[mmLast.name].progress > 0
    /\ mmLast.name \in downloadingModels
    /\ \E n \in ModelNames : models[n].kind = "Available"

(***************************************************************************)
(* DeviceSelection inside RecordingSettings: the selected devices and the  *)
(* audio level monitoring.                                                 *)
(***************************************************************************)
Null == "null"

\* The values of the SelectItems: 'default' and `${device.name} (input)`.
InputNames == {"Built-in Mic", "USB Mic"}
MicValues == {"default"} \cup {"Built-in Mic (input)", "USB Mic (input)"}
SystemValues == {"default", "Speakers (output)"}

\* The selectedDevices prop RecordingSettings renders from its preferences.
PropsOf(prefs) ==
    [micDevice |-> prefs.preferred_mic_device,
     systemDevice |-> prefs.preferred_system_device]

\* deviceName === 'default' ? null : deviceName
DefaultToNull(deviceName) == IF deviceName = "default" THEN Null ELSE deviceName

\* A newDevices that does not spread selectedDevices.
NewMicDevicesAlone(selected, deviceName) ==
    [micDevice |-> DefaultToNull(deviceName), systemDevice |-> Null]

\* newDevices of handleMicDeviceChange
NewMicDevices(selected, deviceName) ==
    [selected EXCEPT !.micDevice = DefaultToNull(deviceName)]

\* newDevices of handleSystemDeviceChange
NewSystemDevices(selected, deviceName) ==
    [selected EXCEPT !.systemDevice = DefaultToNull(deviceName)]

\* newPreferences of RecordingSettings.handleDeviceChange
NewPreferences(prefs, newDevices) ==
    [prefs EXCEPT !.preferred_mic_device = newDevices.micDevice,
                  !.preferred_system_device = newDevices.systemDevice]

NoDsStep == [op |-> "none", deviceName |-> "none", alreadyStopped |-> FALSE]

DsStep(op) == [NoDsStep EXCEPT !.op = op]

\* stopAudioLevelMonitoring called: its invoke is awaited. alreadyStopped
\* tells whether isMonitoring was false when the call was made.
StopCall(alreadyStopped) ==
    [cmd |-> "stop_audio_level_monitoring", alreadyStopped |-> alreadyStopped]

StartCall == [cmd |-> "start_audio_level_monitoring", alreadyStopped |-> FALSE]

\* The preferences are loaded and the devices fetched; nothing is monitored.
DsInit ==
    /\ preferences \in [preferred_mic_device : (MicValues \ {"default"}) \cup {Null},
                        preferred_system_device : (SystemValues \ {"default"}) \cup {Null}]
    /\ selectedDevices = PropsOf(preferences)
    /\ saving = FALSE
    /\ devices \in {{}, InputNames}
    /\ isMonitoring = FALSE
    /\ audioLevels = {}
    /\ showLevels = FALSE
    /\ dsError = FALSE
    /\ dsMounted = TRUE
    /\ dsCalls = <<>>
    /\ dsToggles = 0
    /\ dsLast = NoDsStep

\* The settings page is not open: nothing moves.
DsIdle ==
    /\ preferences = [preferred_mic_device |-> Null, preferred_system_device |-> Null]
    /\ selectedDevices = PropsOf(preferences)
    /\ saving = FALSE
    /\ devices = {}
    /\ isMonitoring = FALSE
    /\ audioLevels = {}
    /\ showLevels = FALSE
    /\ dsError = FALSE
    /\ dsMounted = FALSE
    /\ dsCalls = <<>>
    /\ dsToggles = 0
    /\ dsLast = NoDsStep

\* onDeviceChange(newDevices): RecordingSettings.handleDeviceChange up to the
\* await in savePreferences; the parent re-renders with the new preferences.
HandleDeviceChange(newDevices) ==
    /\ preferences' = NewPreferences(preferences, newDevices)
    /\ selectedDevices' = PropsOf(preferences')
    /\ saving' = TRUE

\* handleMicDeviceChange(deviceName); the Select is disabled while saving.
HandleMicDeviceChange(deviceName) ==
    /\ dsMounted /\ ~saving
    /\ HandleDeviceChange(NewMicDevices(selectedDevices, deviceName))
    /\ dsLast' = [DsStep("mic") EXCEPT !.deviceName = deviceName]
    /\ UNCHANGED <<devices, isMonitoring, audioLevels, showLevels, dsError,
                   dsMounted, dsCalls, dsToggles, notDs>>

\* handleSystemDeviceChange(deviceName)
HandleSystemDeviceChange(deviceName) ==
    /\ dsMounted /\ ~saving
    /\ HandleDeviceChange(NewSystemDevices(selectedDevices, deviceName))
    /\ dsLast' = [DsStep("system") EXCEPT !.deviceName = deviceName]
    /\ UNCHANGED <<devices, isMonitoring, audioLevels, showLevels, dsError,
                   dsMounted, dsCalls, dsToggles, notDs>>

\* set_recording_preferences answers or throws: finally setSaving(false).
SavePreferencesReturns ==
    /\ saving
    /\ saving' = FALSE
    /\ dsLast' = DsStep("saved")
    /\ UNCHANGED <<preferences, selectedDevices, devices, isMonitoring, audioLevels,
                   showLevels, dsError, dsMounted, dsCalls, dsToggles, notDs>>

\* The 'audio-levels' listener: the map is replaced by the payload's levels.
OnAudioLevels(levels) ==
    /\ dsMounted
    /\ audioLevels' = levels
    /\ dsLast' = DsStep("levels")
    /\ UNCHANGED <<preferences, selectedDevices, saving, devices, isMonitoring,
                   showLevels, dsError, dsMounted, dsCalls, dsToggles, notDs>>

\* The calls the cleanup of the effect on [isMonitoring] makes when the
\* component re-renders with isMonitoring = now: the cleanup belongs to the
\* render that had isMonitoring = before.
CleanupCalls(before, now) ==
    IF before # now /\ before THEN <<StopCall(~now)>> ELSE <<>>

\* toggleAudioLevelMonitoring up to its await.
ToggleAudioLevelMonitoring ==
    /\ dsMounted
    /\ dsToggles < MaxToggles
    /\ dsToggles' = dsToggles + 1
    /\ IF isMonitoring
       THEN /\ dsCalls' = Append(dsCalls, StopCall(FALSE))
            /\ dsLast' = DsStep("stop")
            /\ UNCHANGED dsError
       ELSE IF devices = {}
       THEN /\ dsError' = TRUE
            /\ dsLast' = DsStep("noDevices")
            /\ UNCHANGED dsCalls
       ELSE /\ dsCalls' = Append(dsCalls, StartCall)
            /\ dsLast' = DsStep("start")
            /\ UNCHANGED dsError
    /\ UNCHANGED <<preferences, selectedDevices, saving, devices, isMonitoring,
                   audioLevels, showLevels, dsMounted, notDs>>

\* The sequence without its i-th element.
Without(s, i) == [k \in 1..(Len(s) - 1) |-> IF k < i THEN s[k] ELSE s[k + 1]]

\* The i-th awaited invoke resolves. A state update of an unmounted
\* component has no effect.
InvokeResolves(i) ==
    /\ i \in 1..Len(dsCalls)
    /\ LET call == dsCalls[i]
           now == IF ~dsMounted THEN isMonitoring
                  ELSE call.cmd = "start_audio_level_monitoring"
       IN  /\ isMonitoring' = now
           /\ dsCalls' = Without(dsCalls, i) \o
                         (IF dsMounted THEN CleanupCalls(isMonitoring, now) ELSE <<>>)
           /\ IF ~dsMounted THEN UNCHANGED <<showLevels, audioLevels>>
              ELSE IF call.cmd = "start_audio_level_monitoring"
              THEN showLevels' = TRUE /\ UNCHANGED audioLevels
              ELSE audioLevels' = {} /\ UNCHANGED showLevels
           /\ dsLast' = [DsStep(IF call.cmd = "start_audio_level_monitoring"
                                THEN "started" ELSE "stopped")
                         EXCEPT !.alreadyStopped = call.alreadyStopped]
    /\ UNCHANGED <<preferences, selectedDevices, saving, devices, dsError,
                   dsMounted, dsToggles, notDs>>

\* The i-th awaited invoke rejects: the catch blocks.
InvokeRejects(i) ==
    /\ i \in 1..Len(dsCalls)
    /\ LET call == dsCalls[i]
       IN  /\ dsCalls' = Without(dsCalls, i)
           /\ dsError' = IF call.cmd = "start_audio_level_monitoring" /\ dsMounted
                         THEN TRUE ELSE dsError
           /\ dsLast' = [DsStep(IF call.cmd = "start_audio_level_monitoring"
                                THEN "startFailed" ELSE "stopFailed")
                         EXCEPT !.alreadyStopped = call.alreadyStopped]
    /\ UNCHANGED <<preferences, selectedDevices, saving, devices, isMonitoring,
                   audioLevels, showLevels, dsMounted, dsToggles, notDs>>

\* The component unmounts: the effect's cleanup stops a running monitor.
Unmount ==
    /\ dsMounted
    /\ dsMounted' = FALSE
    /\ dsCalls' = dsCalls \o (IF isMonitoring THEN <<StopCall(FALSE)>> ELSE <<>>)
    /\ dsLast' = DsStep("unmount")
    /\ UNCHANGED <<preferences, selectedDevices, saving, devices, isMonitoring,
                   audioLevels, showLevels, dsError, dsToggles, notDs>>

DsNext ==
    \/ \E deviceName \in MicValues : HandleMicDeviceChange(deviceName)
    \/ \E deviceName \in SystemValues : HandleSystemDeviceChange(deviceName)
    \/ SavePreferencesReturns
    \/ \E levels \in (SUBSET InputNames) \ {{}} : OnAudioLevels(levels)
    \/ ToggleAudioLevelMonitoring
    \/ \E i \in 1..Len(dsCalls) : InvokeResolves(i)
    \/ \E i \in 1..Len(dsCalls) : InvokeRejects(i)
    \/ Unmount

(***************************************************************************)
(* Properties of DeviceSelection                                           *)
(***************************************************************************)
SelectsOwnFieldOnly ==
    /\ dsLast'.op = "mic" =>
          /\ preferences'.preferred_mic_device = DefaultToNull(dsLast'.deviceName)
          /\ preferences'.preferred_system_device = preferences.preferred_system_device
          /\ selectedDevices' = PropsOf(preferences')
    /\ dsLast'.op = "system" =>
          /\ preferences'.preferred_system_device = DefaultToNull(dsLast'.deviceName)
          /\ preferences'.preferred_mic_device = preferences.preferred_mic_device
          /\ selectedDevices' = PropsOf(preferences')

\* C22: selecting 'default' for the microphone stores micDevice = null and
\* selecting 'default' for system audio stores systemDevice = null (any other
\* value is stored as it is); each handler changes only its own field and
\* leaves the other selected device unchanged.
C22_SelectsOwnFieldOnly == [][SelectsOwnFieldOnly]_vars

\* C22 happens: the microphone was set to 'default' while a system audio
\* device is selected.
C22_Witness ==
    /\ dsLast.op = "mic" /\ dsLast.deviceName = "default"
    /\ selectedDevices.micDevice = Null
    /\ selectedDevices.systemDevice = "Speakers (output)"

\* A step in which a stop_audio_level_monitoring call ends that was made
\* while monitoring was already stopped.
SecondStopEnds ==
    /\ dsLast'.op \in {"stopped", "stopFailed"}
    /\ dsLast'.alreadyStopped

StopIsIdempotent ==
    /\ (dsLast'.op = "stopped" /\ dsMounted) =>
          (~isMonitoring' /\ audioLevels' = {})
    /\ SecondStopEnds =>
          /\ isMonitoring' = isMonitoring
          /\ audioLevels' = audioLevels
          /\ dsError' = dsError

MaxSetupCalls == 2

notMd == <<pgVars, rcVars, smVars, imVars, dbVars, genVars, fmVars, mmVars, dsVars, swVars>>

AgInit == pageMounted = TRUE /\ mdEnv \in MdEnvs /\ PageFresh

\* PageContent is rendered: neither spinner condition holds.
PageContentMounted ==
    ~mdIsLoading /\ ~isLoadingTranscripts /\ meetingDetails # "null"

\* The condition of the auto-generation check effect.
CheckAutoGen(details, summary, checked) ==
    details = "full" /\ ~summary /\ ~checked

\* setupAutoGeneration up to its first await, called by the check effect when
\* run holds: the two early returns set hasCheckedAutoGen, otherwise
\* api_get_model_config is invoked.
SetupAutoGeneration(run) ==
    IF run /\ mdEnv.source = "recording" /\ mdEnv.isAutoSummary
    THEN setupCalls' = Append(setupCalls, "config") /\ UNCHANGED hasCheckedAutoGen
    ELSE IF run
    THEN hasCheckedAutoGen' = TRUE /\ UNCHANGED setupCalls
    ELSE UNCHANGED <<hasCheckedAutoGen, setupCalls>>

\* The auto-generate effect of PageContent on [shouldAutoGenerate, meeting.id]
\* runs when PageContent mounts and when shouldAutoGenerate changes; it calls
\* handleGenerateSummary('') when shouldAutoGenerate holds and the meeting
\* has transcripts.
AutoGenerateEffect ==
    LET mountedAfter == ~mdIsLoading' /\ ~isLoadingTranscripts' /\ meetingDetails' # "null"
        ran == mountedAfter /\ (~PageContentMounted \/ shouldAutoGenerate' # shouldAutoGenerate)
    IN IF ran /\ shouldAutoGenerate' /\ meetingDetails' = "full"
       THEN autoCount' = autoCount + 1 /\ autoRunning' = TRUE
       ELSE UNCHANGED <<autoCount, autoRunning>>

\* loadMetadata of the initial load answers: the sync effect sets
\* meetingDetails with the transcripts loaded so far, which are none.
MetadataArrives ==
    /\ meetingDetails = "null" /\ isLoadingTranscripts
    /\ meetingDetails' = "empty"
    /\ mdLast' = [op |-> "metadata"]
    /\ UNCHANGED <<mdEnv, meetingSummary, mdIsLoading, isLoadingTranscripts,
                   hasCheckedAutoGen, shouldAutoGenerate, setupCalls, pageMounted, notMd>>
    /\ AutoGenerateEffect

\* The first page of the initial load answers: the sync effect sets
\* meetingDetails anew and the check effect runs on it.
TranscriptsArrive ==
    /\ meetingDetails = "empty" /\ isLoadingTranscripts
    /\ isLoadingTranscripts' = FALSE
    /\ meetingDetails' = IF mdEnv.hasTranscripts THEN "full" ELSE "empty"
    /\ SetupAutoGeneration(CheckAutoGen(meetingDetails', meetingSummary, hasCheckedAutoGen))
    /\ mdLast' = [op |-> "transcripts"]
    /\ UNCHANGED <<mdEnv, meetingSummary, mdIsLoading, shouldAutoGenerate, pageMounted, notMd>>
    /\ AutoGenerateEffect

\* A later page answers (loadMore): transcripts change, the sync effect sets
\* a new meetingDetails and the check effect runs on it.
DetailsRefresh ==
    /\ PageContentMounted /\ meetingDetails = "full"
    /\ CheckAutoGen(meetingDetails, meetingSummary, hasCheckedAutoGen)
    /\ Len(setupCalls) < MaxSetupCalls
    /\ SetupAutoGeneration(TRUE)
    /\ mdLast' = [op |-> "refresh"]
    /\ UNCHANGED <<mdEnv, meetingDetails, meetingSummary, mdIsLoading, isLoadingTranscripts,
                   shouldAutoGenerate, autoRunning, autoCount, pageMounted, notMd>>

\* fetchMeetingSummary: api_get_summary answers. A stored summary is set; an
\* idle status and an error without data leave meetingSummary null. isLoading
\* turns false in the finally.
SummaryArrives ==
    /\ mdIsLoading
    /\ meetingSummary' = mdEnv.hasSummary
    /\ mdIsLoading' = FALSE
    /\ mdLast' = [op |-> "summary"]
    /\ UNCHANGED <<mdEnv, meetingDetails, isLoadingTranscripts, hasCheckedAutoGen,
                   shouldAutoGenerate, setupCalls, pageMounted, notMd>>
    /\ AutoGenerateEffect

\* fetchMeetingSummary: api_get_summary throws; the catch sets
\* meetingSummary to null.
SummaryFails ==
    /\ mdIsLoading
    /\ meetingSummary' = FALSE
    /\ mdIsLoading' = FALSE
    /\ mdLast' = [op |-> "summaryFailed"]
    /\ UNCHANGED <<mdEnv, meetingDetails, isLoadingTranscripts, hasCheckedAutoGen,
                   shouldAutoGenerate, setupCalls, pageMounted, notMd>>
    /\ AutoGenerateEffect

RemoveCall(i) == SubSeq(setupCalls, 1, i - 1) \o SubSeq(setupCalls, i + 1, Len(setupCalls))

\* api_get_model_config answers call i: with a model in the configuration
\* the call sets shouldAutoGenerate and hasCheckedAutoGen; without one it
\* goes on to checkForGemmaModel; a throw is caught and the call ends.
ConfigAnswers(i, ok) ==
    /\ setupCalls[i] = "config"
    /\ IF ok /\ ~mdEnv.configModel
       THEN /\ setupCalls' = [setupCalls EXCEPT ![i] = "gemma"]
            /\ UNCHANGED <<hasCheckedAutoGen, shouldAutoGenerate>>
       ELSE /\ setupCalls' = RemoveCall(i)
            /\ hasCheckedAutoGen' = TRUE
            /\ shouldAutoGenerate' = (ok \/ shouldAutoGenerate)
    /\ mdLast' = [op |-> "config"]
    /\ UNCHANGED <<mdEnv, meetingDetails, meetingSummary, mdIsLoading, isLoadingTranscripts,
                   pageMounted, notMd>>
    /\ AutoGenerateEffect

\* checkForGemmaModel answers call i: with gemma3:1b the call invokes
\* api_save_model_config, without it the call ends.
GemmaAnswers(i, hasGemma) ==
    /\ setupCalls[i] = "gemma"
    /\ IF hasGemma
       THEN /\ setupCalls' = [setupCalls EXCEPT ![i] = "save"]
            /\ mdLast' = [op |-> "save"]
            /\ UNCHANGED hasCheckedAutoGen
       ELSE /\ setupCalls' = RemoveCall(i)
            /\ mdLast' = [op |-> "gemma"]
            /\ hasCheckedAutoGen' = TRUE
    /\ UNCHANGED <<mdEnv, meetingDetails, meetingSummary, mdIsLoading, isLoadingTranscripts,
                   shouldAutoGenerate, autoRunning, autoCount, pageMounted, notMd>>

\* api_save_model_config answers call i: the call sets shouldAutoGenerate
\* unless the invoke threw, and hasCheckedAutoGen either way. The saved
\* configuration has model '', so the stored one still has no model.
SaveAnswers(i, ok) ==
    /\ setupCalls[i] = "save"
    /\ setupCalls' = RemoveCall(i)
    /\ hasCheckedAutoGen' = TRUE
    /\ shouldAutoGenerate' = (ok \/ shouldAutoGenerate)
    /\ mdLast' = [op |-> "saved"]
    /\ UNCHANGED <<mdEnv, meetingDetails, meetingSummary, mdIsLoading, isLoadingTranscripts,
                   pageMounted, notMd>>
    /\ AutoGenerateEffect

\* handleGenerateSummary('') of the auto-generate effect resolves:
\* onAutoGenerateComplete sets shouldAutoGenerate to false.
AutoGenerateReturns ==
    /\ autoRunning
    /\ autoRunning' = FALSE
    /\ shouldAutoGenerate' = FALSE
    /\ mdLast' = [op |-> "autoDone"]
    /\ UNCHANGED <<mdEnv, meetingDetails, meetingSummary, mdIsLoading, isLoadingTranscripts,
                   hasCheckedAutoGen, setupCalls, autoCount, pageMounted, notMd>>

AgNext ==
    \/ MetadataArrives
    \/ TranscriptsArrive
    \/ DetailsRefresh
    \/ \E i \in 1..Len(setupCalls), ok \in BOOLEAN : ConfigAnswers(i, ok)
    \/ \E i \in 1..Len(setupCalls), hasGemma \in BOOLEAN : GemmaAnswers(i, hasGemma)
    \/ \E i \in 1..Len(setupCalls), ok \in BOOLEAN : SaveAnswers(i, ok)
    \/ SummaryArrives
    \/ SummaryFails
    \/ AutoGenerateReturns

\* A step that starts an automatic generation.
AutoGenerationStarts == autoCount' = autoCount + 1

AutoGenerationJustified ==
    AutoGenerationStarts =>
        /\ autoCount' = 1
        /\ mdEnv.source = "recording"
        /\ mdEnv.isAutoSummary
        /\ mdEnv.hasTranscripts
        /\ ~mdEnv.hasSummary

SaveOnlyWithoutModel == mdLast'.op = "save" => ~mdEnv.configModel

\* C32: automatic summary generation starts at most once per opened meeting,
\* and only when the page was reached from a recording, auto-summary is
\* enabled, the meeting has transcripts and no summary exists; the setup
\* invokes api_save_model_config only when the stored configuration has no
\* model.
C32_AutoGenerateOnce == [][AutoGenerationJustified /\ SaveOnlyWithoutModel]_vars

(***************************************************************************)
(* usePaginatedTranscripts while the meetingId prop changes                *)
(***************************************************************************)
SegsPerMeeting == 3   \* segments stored for each meeting
MaxSwitches == 2      \* changes of the meetingId prop

notSw == <<rcVars, smVars, imVars, dbVars, genVars, fmVars, mmVars, dsVars, mdVars>>

\* Meeting "m1" holds the segments 1..SegsPerMeeting, "m2" the next ones.
BaseId(m) == IF m = "m1" THEN 0 ELSE SegsPerMeeting

MeetingOfSeg(id) == IF id <= SegsPerMeeting THEN "m1" ELSE "m2"

StoredTranscripts(m) ==
    [i \in 1..SegsPerMeeting |-> [id |-> BaseId(m) + i, audio_start_time |-> i]]

\* get_meeting_transcripts(meeting_id, limit, offset) over the store of m.
MeetingTranscripts(m, limit, offset) ==
    LET stored == StoredTranscripts(m)
        from == Min(offset, Len(stored))
        to == Min(offset + limit, Len(stored))
    IN  [transcripts |-> SubSeq(stored, from + 1, to),
         total_count |-> Len(stored),
         has_more |-> to < Len(stored)]

\* The hook was mounted with meetingId "m1": the effect has set
\* loadedMeetingIdRef, called reset() and loadInitial(), whose loadMetadata
\* is awaited.
SwInit ==
    /\ transcripts = <<>>
    /\ hasMore = FALSE
    /\ totalCount = 0
    /\ isLoading = TRUE
    /\ isLoadingMore = FALSE
    /\ pgError = FALSE
    /\ offsetRef = 0
    /\ isLoadingRef = FALSE
    /\ lastLoadTimeRef = 0
    /\ pgRequest = NoRequest
    /\ pgNow = 1000
    /\ pgMeetingId = "m1"
    /\ loadedMeetingIdRef = "m1"
    /\ pgInflight = <<[kind |-> "metadata", meetingId |-> "m1", offset |-> 0]>>
    /\ pgSwitches = 0
    /\ pgSource = NoMeeting
    /\ pgFailedAt = -1
    /\ pgLast = NoPgObs

\* reset(): the state goes back to its initial values and offsetRef to 0;
\* isLoadingRef and lastLoadTimeRef are not touched.
ResetHook ==
    /\ transcripts' = <<>>
    /\ totalCount' = 0
    /\ isLoading' = TRUE
    /\ isLoadingMore' = FALSE
    /\ hasMore' = FALSE
    /\ pgError' = FALSE
    /\ offsetRef' = 0
    /\ pgSource' = NoMeeting
    /\ pgFailedAt' = -1

\* The meetingId prop changes to meeting m and the initial-load effect runs:
\* a meeting that loadedMeetingIdRef names is not loaded again; otherwise
\* reset() and loadInitial(), whose loadMetadata is invoked. Nothing that is
\* awaited for the previous meeting is cancelled.
SwitchMeeting(m) ==
    /\ m # pgMeetingId
    /\ pgSwitches < MaxSwitches
    /\ pgSwitches' = pgSwitches + 1
    /\ pgMeetingId' = m
    /\ IF loadedMeetingIdRef = m
       THEN UNCHANGED <<transcripts, totalCount, isLoading, isLoadingMore, hasMore,
                        pgError, offsetRef, pgSource, pgFailedAt, loadedMeetingIdRef,
                        pgInflight>>
       ELSE /\ loadedMeetingIdRef' = m
            /\ ResetHook
            /\ pgInflight' = Append(pgInflight,
                                    [kind |-> "metadata", meetingId |-> m, offset |-> 0])
    /\ pgLast' = [NoPgObs EXCEPT !.op = "switch"]
    /\ UNCHANGED <<isLoadingRef, lastLoadTimeRef, pgRequest, pgNow, notSw>>

\* The meetingId prop becomes '': the effect calls reset() and returns.
CloseMeeting ==
    /\ pgMeetingId # NoMeeting
    /\ pgSwitches < MaxSwitches
    /\ pgSwitches' = pgSwitches + 1
    /\ pgMeetingId' = NoMeeting
    /\ ResetHook
    /\ pgLast' = [NoPgObs EXCEPT !.op = "close"]
    /\ UNCHANGED <<loadedMeetingIdRef, pgInflight, isLoadingRef, lastLoadTimeRef,
                   pgRequest, pgNow, notSw>>

RemoveRequest(i) == SubSeq(pgInflight, 1, i - 1) \o SubSeq(pgInflight, i + 1, Len(pgInflight))

\* loadMetadata of a loadInitial resolves; loadInitial goes on to
\* loadTranscriptsAtOffset(0, false) of the same closure, that is, of the
\* same meeting.
MetadataLoaded(i) ==
    /\ pgInflight[i].kind = "metadata"
    /\ pgInflight' = [pgInflight EXCEPT ![i].kind = "initial"]
    /\ pgLast' = [NoPgObs EXCEPT !.op = "metadata"]
    /\ UNCHANGED <<transcripts, hasMore, totalCount, isLoading, isLoadingMore, pgError,
                   offsetRef, isLoadingRef, lastLoadTimeRef, pgRequest, pgNow, pgMeetingId,
                   loadedMeetingIdRef, pgSwitches, pgSource, pgFailedAt, notSw>>

\* loadMetadata rejects: its catch sets error and returns null; loadInitial
\* goes on to the first page all the same.
MetadataFails(i) ==
    /\ pgInflight[i].kind = "metadata"
    /\ pgError' = TRUE
    /\ pgInflight' = [pgInflight EXCEPT ![i].kind = "initial"]
    /\ pgLast' = [NoPgObs EXCEPT !.op = "metadataFailed"]
    /\ UNCHANGED <<transcripts, hasMore, totalCount, isLoading, isLoadingMore, offsetRef,
                   isLoadingRef, lastLoadTimeRef, pgRequest, pgNow, pgMeetingId,
                   loadedMeetingIdRef, pgSwitches, pgSource, pgFailedAt, notSw>>

\* A finally of loadMore that leaves isLoadingRef set.
FinallyKeepsRef(kind) ==
    IF kind = "initial"
    THEN isLoading' = FALSE /\ UNCHANGED <<isLoadingMore, isLoadingRef>>
    ELSE isLoadingMore' = FALSE /\ UNCHANGED <<isLoading, isLoadingRef>>

\* The finally of loadInitial (kind "initial") or of loadMore (kind "more").
Finally(kind) ==
    IF kind = "initial"
    THEN isLoading' = FALSE /\ UNCHANGED <<isLoadingMore, isLoadingRef>>
    ELSE isLoadingMore' = FALSE /\ isLoadingRef' = FALSE /\ UNCHANGED isLoading

\* api_get_meeting_transcripts answers request i from the store of the
\* meeting the request names: loadTranscriptsAtOffset writes the page,
\* has_more, total_count and offsetRef whatever the meetingId prop is now,
\* then the caller's finally runs.
PageAnswers(i) ==
    LET request == pgInflight[i]
        response == MeetingTranscripts(request.meetingId, DEFAULT_PAGE_SIZE, request.offset)
    IN  /\ request.kind \in {"initial", "more"}
        /\ transcripts' = IF request.kind = "more"
                          THEN MergePage(transcripts, response.transcripts)
                          ELSE response.transcripts
        /\ hasMore' = response.has_more
        /\ totalCount' = response.total_count
        /\ offsetRef' = request.offset + Len(response.transcripts)
        /\ pgSource' = request.meetingId
        /\ Finally(request.kind)
        /\ pgInflight' = RemoveRequest(i)
        /\ pgLast' = [NoPgObs EXCEPT !.op = "page", !.kind = request.kind]
        /\ UNCHANGED <<pgError, lastLoadTimeRef, pgRequest, pgNow, pgMeetingId,
                       loadedMeetingIdRef, pgSwitches, pgFailedAt, notSw>>

\* api_get_meeting_transcripts rejects request i: the catch of
\* loadTranscriptsAtOffset sets error, then the caller's finally runs.
PageFails(i) ==
    LET request == pgInflight[i]
    IN  /\ request.kind \in {"initial", "more"}
        /\ pgError' = TRUE
        /\ Finally(request.kind)
        /\ pgFailedAt' = IF request.kind = "more" THEN request.offset ELSE pgFailedAt
        /\ pgInflight' = RemoveRequest(i)
        /\ pgLast' = [NoPgObs EXCEPT !.op = "pageFailed", !.kind = request.kind]
        /\ UNCHANGED <<transcripts, hasMore, totalCount, offsetRef, lastLoadTimeRef,
                       pgRequest, pgNow, pgMeetingId, loadedMeetingIdRef, pgSwitches,
                       pgSource, notSw>>

\* loadMore() is called: the debounce and the guards return without a
\* request; otherwise the page at offsetRef of the current meeting is
\* requested.
LoadMoreAccepted ==
    /\ ~(pgNow - lastLoadTimeRef < DEBOUNCE_MS)
    /\ ~(isLoadingRef \/ ~hasMore \/ pgMeetingId = NoMeeting \/ isLoading)

LoadMoreCalled ==
    /\ IF LoadMoreAccepted
       THEN /\ lastLoadTimeRef' = pgNow
            /\ isLoadingRef' = TRUE
            /\ isLoadingMore' = TRUE
            /\ pgInflight' = Append(pgInflight, [kind |-> "more", meetingId |-> pgMeetingId,
                                                 offset |-> offsetRef])
       ELSE UNCHANGED <<lastLoadTimeRef, isLoadingRef, isLoadingMore, pgInflight>>
    /\ pgLast' = [NoPgObs EXCEPT !.op = "loadMore", !.accepted = LoadMoreAccepted]
    /\ UNCHANGED <<transcripts, hasMore, totalCount, isLoading, pgError, offsetRef,
                   pgRequest, pgNow, pgMeetingId, loadedMeetingIdRef, pgSwitches,
                   pgSource, pgFailedAt, notSw>>

\* Time passes between two events of the hook.
SwClock ==
    /\ pgNow < 1000 + MaxPgClock * ClockStep
    /\ pgNow' = pgNow + ClockStep
    /\ pgLast' = [NoPgObs EXCEPT !.op = "clock"]
    /\ UNCHANGED <<transcripts, hasMore, totalCount, isLoading, isLoadingMore, pgError,
                   offsetRef, isLoadingRef, lastLoadTimeRef, pgRequest, pgMeetingId,
                   loadedMeetingIdRef, pgInflight, pgSwitches, pgSource, pgFailedAt, notSw>>

SwNext ==
    \/ \E i \in 1..Len(pgInflight) : MetadataLoaded(i)
    \/ \E i \in 1..Len(pgInflight) : MetadataFails(i)
    \/ \E i \in 1..Len(pgInflight) : PageAnswers(i)
    \/ \E i \in 1..Len(pgInflight) : PageFails(i)
    \/ LoadMoreCalled
    \/ SwClock
    \/ \E m \in MeetingIds : SwitchMeeting(m)
    \/ CloseMeeting

\* A loadMore request is awaited.
LoadMoreInFlight == \E i \in 1..Len(pgInflight) : pgInflight[i].kind = "more"

\* The initial load of the current meeting is running.
InitialLoadRunning ==
    \E i \in 1..Len(pgInflight) :
        /\ pgInflight[i].kind \in {"metadata", "initial"}
        /\ pgInflight[i].meetingId = pgMeetingId

NothingToLoad ==
    \/ LoadMoreInFlight
    \/ InitialLoadRunning
    \/ ~hasMore
    \/ pgMeetingId = NoMeeting
    \/ pgNow - lastLoadTimeRef < DEBOUNCE_MS

LoadMoreGuarded ==
    pgLast'.op = "loadMore" =>
        /\ NothingToLoad => pgInflight' = pgInflight
        /\ pgInflight' # pgInflight =>
              /\ Len(pgInflight') = Len(pgInflight) + 1
              /\ pgInflight'[Len(pgInflight')].offset = Len(transcripts)

\* C33: a loadMore call made while another loadMore request is in flight,
\* while the initial load is running, when hasMore is false, with no meeting
\* id or within 100 ms of the previous accepted call issues no request; an
\* accepted call issues one request, at the offset that is the number of
\* rows received so far.
C33_LoadMoreGuarded == [][LoadMoreGuarded]_vars

PageFailureHandled ==
    pgLast'.op = "pageFailed" =>
        /\ pgError'
        /\ UNCHANGED <<transcripts, offsetRef, hasMore, totalCount>>
        /\ pgLast'.kind = "more" => (~isLoadingMore' /\ ~isLoadingRef')

\* C34: when a page request fails the hook sets error; the transcripts
\* loaded so far, the offset, hasMore and totalCount stay as they were; after
\* a failed loadMore request isLoadingMore is false again and the in-flight
\* guard is released, so that a later loadMore asks for the same offset.
C34_FailureKeepsState == [][PageFailureHandled]_vars

\* C34 happens: a loadMore request failed and a later loadMore call was
\* accepted and asks for the offset of the failed one.
C34_Witness ==
    /\ pgLast.op = "loadMore" /\ pgLast.accepted
    /\ pgError
    /\ pgFailedAt > 0
    /\ pgInflight[Len(pgInflight)] = [kind |-> "more", meetingId |-> pgMeetingId,
                                      offset |-> pgFailedAt]

\* Every row of the list is a segment of the current meeting, and hasMore
\* and totalCount were written by an answer about the current meeting (or
\* by reset).
BelongsToCurrentMeeting ==
    /\ \A i \in 1..Len(transcripts) : MeetingOfSeg(transcripts[i].id) = pgMeetingId
    /\ pgSource \in {NoMeeting, pgMeetingId}

\* C35: the transcripts, totalCount and hasMore of the hook belong to the
\* current meetingId at all times, also when an answer about the previous
\* meeting arrives after the meetingId has changed.
C35_BelongsToCurrentMeeting == BelongsToCurrentMeeting

(***************************************************************************)
(* ModelManager: the downloading set, its copy in localStorage, late       *)
(* download events and restarts.                                           *)
(***************************************************************************)
MaxRestarts == 1

\* downloadModel(modelName) for a model of downloadingModels returns at once.
DownloadModelIgnored(modelName) ==
    /\ modelName \in downloadingModels
    /\ mmLast' = MmStep("downloadIgnored", modelName, 0)
    /\ UNCHANGED <<models, downloadingModels, progressThrottleRef, mmPending, mmNow,
                   mmStore, notMm>>

\* The retry action of the error toast: downloadModel of the render in which
\* the listeners were set up (the effect has no dependencies), whose
\* downloadingModels is the empty set of the first render, so the guard
\* passes whatever the set holds now. Taken when no downloadModel call for
\* the model is awaited.
RetryFromToast(modelName) ==
    /\ modelName \in retryToasts
    /\ modelName \notin mmPending.download
    /\ downloadingModels' = downloadingModels \cup {modelName}
    /\ persistedDownloading' = downloadingModels'
    /\ models' = SetStatus(models, modelName, Downloading(0))
    /\ mmPending' = [mmPending EXCEPT !.download = @ \cup {modelName}]
    /\ mmStarted' = mmStarted \cup {modelName}
    /\ retryToasts' = retryToasts \ {modelName}
    /\ mmLast' = MmStep("download", modelName, 0)
    /\ UNCHANGED <<progressThrottleRef, mmNow, mmRestarts, notMm>>

\* The status initializeModels gives a model the backend reports with
\* `status`: a persisted name that is not Available, Corrupted or Missing is
\* shown as Downloading 0%.
RestoredStatus(persisted, modelName, status) ==
    IF modelName \in persisted /\ status.kind \notin {"Available", "Corrupted", "Missing"}
    THEN Downloading(0)
    ELSE status

\* initializeModels calls updateDownloadingModels(prev => prev minus name)
\* for a persisted name reported Corrupted or Missing; prev is the state of
\* the new component, the empty set, so the empty set is written.
PersistedAfterInit(persisted, modelList) ==
    IF \E n \in persisted : modelList[n].kind \in {"Corrupted", "Missing"}
    THEN {}
    ELSE persisted

\* The application is closed and opened again: the backend stops, the
\* component starts from its initial state and initializeModels applies the
\* persisted names to the list the backend returns.
Restart(modelList) ==
    /\ mmRestarts < MaxRestarts
    /\ mmRestarts' = mmRestarts + 1
    /\ models' = [n \in ModelNames |-> RestoredStatus(persistedDownloading, n, modelList[n])]
    /\ persistedDownloading' = PersistedAfterInit(persistedDownloading, modelList)
    /\ downloadingModels' = {}
    /\ progressThrottleRef' = [n \in ModelNames |-> NoThrottle]
    /\ mmPending' = NoPending
    /\ mmStarted' = {}
    /\ retryToasts' = {}
    /\ mmLast' = [MmStep("restart", "none", 0) EXCEPT !.list = modelList]
    /\ UNCHANGED <<mmNow, notMm>>

\* The handlers, and the events of the downloads the backend has started.
DownloadsNext ==
    \/ \E n \in Operated : DownloadModel(n)
    \/ \E n \in Operated : DownloadModelIgnored(n)
    \/ \E n \in Operated : DownloadResolves(n)
    \/ \E n \in Operated : DownloadRejects(n)
    \/ \E n \in Operated : CancelDownload(n)
    \/ \E n \in Operated : CancelResolves(n)
    \/ \E n \in Operated : CancelRejects(n)
    \/ \E n \in Operated : n \in mmStarted /\ OnDownloadComplete(n)
    \/ \E n \in Operated : n \in mmStarted /\ OnDownloadError(n)
    \/ \E n \in Operated, p \in ProgressPayloads : n \in mmStarted /\ OnDownloadProgress(n, p)
    \/ \E n \in Operated : RetryFromToast(n)
    \/ MmClock

ModelStoreNext ==
    \/ DownloadsNext
    \/ \E list \in ModelLists : Restart(list)

\* The status of a model is Downloading exactly when downloadingModels holds it.
DownloadingMatchesSet ==
    \A n \in ModelNames : models[n].kind = "Downloading" <=> n \in downloadingModels

\* A downloadModel call for a model of downloadingModels changes nothing.
DownloadTwiceIsNoOp ==
    (mmLast'.op \in {"download", "downloadIgnored"} /\ mmLast'.name \in downloadingModels) =>
        UNCHANGED <<models, downloadingModels, persistedDownloading, mmPending>>

\* C36: a model's status is Downloading exactly when its name is in
\* downloadingModels, also after a progress event that arrives after a
\* successful cancel, a complete event or an error event; and downloadModel
\* for a model that is in downloadingModels changes nothing.
C36_DownloadingMatchesSet == [][DownloadingMatchesSet' /\ DownloadTwiceIsNoOp]_vars

PersistingSteps == {"download", "downloadFailed", "cancelled", "complete", "error"}

\* After each of the operations localStorage holds the in-memory set.
PersistedMatches ==
    mmLast'.op \in PersistingSteps => persistedDownloading' = downloadingModels'

\* A model whose download is over (it was started and the set no longer
\* holds it) is not shown as Downloading by the next start unless the
\* backend itself reports it so.
NotRestored ==
    mmLast'.op = "restart" =>
        \A n \in mmStarted \ downloadingModels :
            models'[n].kind = "Downloading" => mmLast'.list[n].kind = "Downloading"

\* C37: after download start, download failure, cancel, complete event and
\* error event the set under localStorage key 'downloading-models' equals
\* downloadingModels, so that a model that finished or failed is not
\* restored as downloading by a restart.
C37_PersistedMatchesSet == [][PersistedMatches /\ NotRestored]_vars

(***************************************************************************)
(* Specifications                                                          *)
(***************************************************************************)
InitPaginate == PgInit /\ RcIdle /\ SmIdle /\ ImIdle /\ DbIdle /\ GenIdle /\ FmIdle /\ MmIdle /\ DsIdle /\ MdIdle /\ SwIdle

SpecPaginate == InitPaginate /\ [][PgNext]_vars

InitScan == ScanInit /\ PgIdle /\ SmIdle /\ ImIdle /\ DbIdle /\ GenIdle /\ FmIdle /\ MmIdle /\ DsIdle /\ MdIdle /\ SwIdle

SpecScan == InitScan /\ [][ScanNext]_vars

InitRecovery == RcInit /\ PgIdle /\ SmIdle /\ ImIdle /\ DbIdle /\ GenIdle /\ FmIdle /\ MmIdle /\ DsIdle /\ MdIdle /\ SwIdle

SpecRecovery == InitRecovery /\ [][RcNext]_vars

Init == SmInit /\ PgIdle /\ RcIdle /\ ImIdle /\ DbIdle /\ GenIdle /\ FmIdle /\ MmIdle /\ DsIdle /\ MdIdle /\ SwIdle

\* Handlers are called at any time, also while a job is under way.
Spec == Init /\ [][Next]_vars

\* One job at a time: processSummary is called only when no earlier call is
\* waiting, no timer ticks and no poll answer is outstanding.
NextSequential ==
    \/ NoJobUnderWay /\ \E blank \in BOOLEAN : HandleGenerateSummary(blank)
    \/ NoJobUnderWay /\ HandleRegenerateSummary
    \/ Steps

SpecSequential == Init /\ [][NextSequential]_vars

\* One job at a time, with api_get_summary calls that can take longer than
\* the polling interval.
NextOverlapping ==
    \/ NextSequential
    \/ \E t \in TimerIds : PollTickWhileWaiting(t)

SpecOverlapping == Init /\ [][NextOverlapping]_vars

\* The interval fires every 5 seconds, every invoke is answered and React
\* renders after a state update.
PollAdvances ==
    \E t \in TimerIds :
        PollTick(t) \/ \E reloadOk \in BOOLEAN : PollTimeout(t, reloadOk)

PollAnswered ==
    \E t \in TimerIds, reloadOk \in BOOLEAN :
        PollResponse(t, reloadOk) \/ PollCallFails(t, reloadOk)

ProcessTranscriptAnswered ==
    \E i \in 1..Len(pendingRuns) :
        ProcessTranscriptReturns(i) \/ ProcessTranscriptFails(i)

\* Two meetings: the viewed one, one job at a time and every handler called
\* from a finished render, and the other meeting with its own poll.
NextTwoMeetings ==
    \/ pageMounted /\ ~pollsChanged /\ NoJobUnderWay /\ HandleGenerateSummary(FALSE)
    \/ pageMounted /\ ~pollsChanged /\ \E cancelOk \in BOOLEAN : HandleStopGeneration(cancelOk)
    \/ LeavePage
    \/ \E i \in 1..Len(pendingRuns) : ProcessTranscriptReturns(i)
    \/ \E t \in TimerIds : PollTick(t)
    \/ \E t \in TimerIds, reloadOk \in BOOLEAN : PollTimeout(t, reloadOk)
    \/ \E t \in TimerIds, reloadOk \in BOOLEAN : PollResponse(t, reloadOk)
    \/ Render
    \/ OtherMeetingStarts
    \/ OtherMeetingStops
    \/ \E m \in MeetingIds : JobCompletes(m, Markdown(backend[m].jobs))

SpecTwoMeetings == Init /\ [][NextTwoMeetings]_vars

SpecSequentialFair ==
    /\ Init /\ [][NextSequential]_vars
    /\ WF_vars(PollAdvances) /\ WF_vars(PollAnswered) /\ WF_vars(Render)
    /\ WF_vars(ProcessTranscriptAnswered)

\* The two meetings under the same scheduling.
SpecTwoMeetingsFair ==
    /\ Init /\ [][NextTwoMeetings]_vars
    /\ WF_vars(PollAdvances) /\ WF_vars(PollAnswered) /\ WF_vars(Render)
    /\ WF_vars(ProcessTranscriptAnswered)

InitAutoGenerate == AgInit /\ PgIdle /\ RcIdle /\ SmIdle /\ ImIdle /\ DbIdle /\ GenIdle /\ FmIdle /\ MmIdle /\ DsIdle /\ SwIdle

SpecAutoGenerate == InitAutoGenerate /\ [][AgNext]_vars

InitSwitch == SwInit /\ RcIdle /\ SmIdle /\ ImIdle /\ DbIdle /\ GenIdle /\ FmIdle /\ MmIdle /\ DsIdle /\ MdIdle

\* The pagination hook while the page goes from one meeting to another.
SpecSwitch == InitSwitch /\ [][SwNext]_vars

InitImport == ImInit /\ PgIdle /\ RcIdle /\ SmIdle /\ DbIdle /\ GenIdle /\ FmIdle /\ MmIdle /\ DsIdle /\ MdIdle /\ SwIdle

SpecImport == InitImport /\ [][ImNext]_vars

InitLoadAll == PgInit /\ RcIdle /\ SmIdle /\ ImIdle /\ DbLoadAll /\ GenIdle /\ FmIdle /\ MmIdle /\ DsIdle /\ MdIdle /\ SwIdle

\* The pagination hook against a backend that holds TotalSegments segments.
SpecLoadAll == InitLoadAll /\ [][LoadAllNext]_vars

InitGenerate == SmInit /\ GenInit /\ DbGenerate /\ PgIdle /\ RcIdle /\ ImIdle /\ FmIdle /\ MmIdle /\ DsIdle /\ MdIdle /\ SwIdle

SpecGenerate == InitGenerate /\ [][GenerateNext]_vars

InitFormat == FmInit /\ PgIdle /\ RcIdle /\ SmIdle /\ ImIdle /\ DbIdle /\ GenIdle /\ MmIdle /\ DsIdle /\ MdIdle /\ SwIdle

SpecFormat == InitFormat /\ [][FmNext]_vars

InitModels == MmInit /\ PgIdle /\ RcIdle /\ SmIdle /\ ImIdle /\ DbIdle /\ GenIdle /\ FmIdle /\ DsIdle /\ MdIdle /\ SwIdle

SpecModels == InitModels /\ [][MmNext]_vars

\* ModelManager with the events of started downloads only.
SpecDownloads == InitModels /\ [][DownloadsNext]_vars

\* The same with restarts of the application.
SpecModelStore == InitModels /\ [][ModelStoreNext]_vars

InitDevices == DsInit /\ PgIdle /\ RcIdle /\ SmIdle /\ ImIdle /\ DbIdle /\ GenIdle /\ FmIdle /\ MmIdle /\ MdIdle /\ SwIdle

SpecDevices == InitDevices /\ [][DsNext]_vars

====
